---------------------------- MODULE Spec2Model ----------------------------
(***************************************************************************)
(* A model of the chess engine under src/public/js: the piece catalogue    *)
(* (possibleMoves of each kind), Board (grid, cached handles, movePiece,   *)
(* clone), Rules (legality filter, check / checkmate / stalemate           *)
(* adjudication, castling veto, en passant, promotion detection) and the   *)
(* Game controller's event handlers (square click, promotion choice,       *)
(* Escape).                                                                *)
(*                                                                         *)
(* Objects are modelled as a heap: a piece is an identifier, its fields    *)
(* live in board.pieces[id], and board.grid holds identifiers (0 = null).  *)
(* A square {row, column} is the tuple <<row, column>>; null / undefined   *)
(* squares are the empty tuple.  Arrays are sequences, in the order the    *)
(* code fills them.  A handler that ends in a TypeError leaves the state   *)
(* its completed statements produced and sets threw.                       *)
(***************************************************************************)
EXTENDS Integers, Sequences, FiniteSets, TLC

VARIABLES
    board,              \* Game.board / Rules.board: [grid, pieces, handles]
    turn,               \* Rules.turn
    state,              \* Rules.state (the phase)
    gameSituation,      \* Rules.gameSituation
    selectedPiece,      \* Rules.selectedPiece (identifier, 0 = null)
    enPassantTarget,    \* Rules.enPassantTarget (identifier, 0 = null)
    pawnInPromotion,    \* Rules.pawnInPromotion (square, <<>> = unset)
    availableMovesWhite,\* Rules.availableMovesWhite
    availableMovesBlacks,\* Rules.availableMovesBlacks
    gameGameSituation,  \* the gameSituation property written on the Game object
    clickBound,         \* whether the "click" handler is still bound to the tables
    threw,              \* the handler of the last event ended in an exception
    last,               \* the last event delivered (observation only)
    events              \* number of events delivered so far (bounds the model)

vars == <<board, turn, state, gameSituation, selectedPiece, enPassantTarget,
          pawnInPromotion, availableMovesWhite, availableMovesBlacks,
          gameGameSituation, clickBound, threw, last, events>>

-----------------------------------------------------------------------------
(* Values *)

Null == << >>

White == "White"
Black == "Black"

Pawn == "Pawn"
Knight == "Knight"
Bishop == "Bishop"
Rook == "Rook"
Queen == "Queen"
King == "King"

ChoosingPiece == "Choosing piece"
MovingAPiece == "Moving a piece"
PawnPromotion == "Pawn promotion"

Casual == "Casual"
Check == "Check"
Checkmate == "CHECKMATE"
Stalemate == "Stalemate"

Other(color) == IF color = White THEN Black ELSE White

Range(seq) == {seq[i] : i \in 1 .. Len(seq)}

\* a function on 1 .. n given by a rule, as the explicit sequence of its values
Table(f) == << >> \o f

Rows == 0 .. 7
Squares == Rows \X Rows
OnBoard(r, c) == r >= 0 /\ r < 8 /\ c >= 0 /\ c < 8

\* index of grid[r][c] in the flattened grid
Idx(r, c) == r * 8 + c + 1

\* identifiers of the 32 pieces Board.initializeBoard creates, by square
InitId(r, c) ==
    CASE r = 0 -> c + 1
      [] r = 1 -> 9 + c
      [] r = 6 -> 17 + c
      [] r = 7 -> 25 + c
      [] OTHER -> 0

PieceIds == 1 .. 32
\* the four Rook objects Board.clone creates for its rook handles
CloneRookWL == 33
CloneRookWR == 34
CloneRookBL == 35
CloneRookBR == 36

\* an identifier with no object behind it any more
Dead == [kind |-> "none", color |-> "none", pos |-> Null, amtMove |-> 0,
         check |-> FALSE, avail |-> << >>, ep |-> Null, prev |-> Null]

\* new <Kind>(color, position, img)
NewPiece(kind, color, pos) ==
    [kind |-> kind, color |-> color, pos |-> pos, amtMove |-> 0,
     check |-> FALSE, avail |-> << >>, ep |-> Null, prev |-> Null]

-----------------------------------------------------------------------------
(* Board queries *)

At(b, r, c) == b.grid[Idx(r, c)]

IsSquareOccupied(b, r, c) == OnBoard(r, c) /\ At(b, r, c) # 0

GetPieceAtPosition(b, r, c) == b.pieces[At(b, r, c)]

HasMoved(b, id) == b.pieces[id].amtMove > 0

-----------------------------------------------------------------------------
(* Piece catalogue: possibleMoves, in the order the code pushes the moves *)

RECURSIVE Ray(_, _, _, _, _, _)
Ray(b, color, r, c, dr, dc) ==
    IF ~OnBoard(r, c) THEN << >>
    ELSE IF IsSquareOccupied(b, r, c)
         THEN IF GetPieceAtPosition(b, r, c).color # color
              THEN << <<r, c>> >> ELSE << >>
         ELSE << <<r, c>> >> \o Ray(b, color, r + dr, c + dc, dr, dc)

RECURSIVE Concat(_)
Concat(ss) == IF ss = << >> THEN << >> ELSE Head(ss) \o Concat(Tail(ss))

RookDirections == << <<-1, 0>>, <<1, 0>>, <<0, -1>>, <<0, 1>> >>
BishopDirections == << <<-1, -1>>, <<-1, 1>>, <<1, -1>>, <<1, 1>> >>
QueenDirections == << <<-1, -1>>, <<-1, 1>>, <<1, -1>>, <<1, 1>>,
                      <<-1, 0>>, <<1, 0>>, <<0, -1>>, <<0, 1>> >>
KingDirections == QueenDirections
KnightDirections == << <<-2, -1>>, <<-2, 1>>, <<-1, -2>>, <<-1, 2>>,
                       <<1, -2>>, <<1, 2>>, <<2, -1>>, <<2, 1>> >>

SlidingMoves(b, p, dirs) ==
    Concat([i \in 1 .. Len(dirs) |->
              Ray(b, p.color, p.pos[1] + dirs[i][1], p.pos[2] + dirs[i][2],
                  dirs[i][1], dirs[i][2])])

RookPossibleMoves(b, p) == SlidingMoves(b, p, RookDirections)
BishopPossibleMoves(b, p) == SlidingMoves(b, p, BishopDirections)
\* a faulty queen: the diagonal directions are missing
QueenAsRook(b, p) == SlidingMoves(b, p, RookDirections)

QueenPossibleMoves(b, p) == SlidingMoves(b, p, QueenDirections)

\* the "standard move check": an on-board square that is empty or holds an opponent
StepTarget(b, p, r, c) ==
    IF IsSquareOccupied(b, r, c)
    THEN IF GetPieceAtPosition(b, r, c).color # p.color
         THEN << <<r, c>> >> ELSE << >>
    ELSE << <<r, c>> >>

KnightPossibleMoves(b, p) ==
    Concat([i \in 1 .. Len(KnightDirections) |->
              LET r == p.pos[1] + KnightDirections[i][1]
                  c == p.pos[2] + KnightDirections[i][2]
              IN  IF OnBoard(r, c) THEN StepTarget(b, p, r, c) ELSE << >>])

\* a faulty king: the castling destinations are never offered
KingWithoutCastling(b, p) ==
    Concat([i \in 1 .. Len(KingDirections) |->
      LET r == p.pos[1] + KingDirections[i][1]
          c == p.pos[2] + KingDirections[i][2]
      IN  IF OnBoard(r, c) THEN StepTarget(b, p, r, c) ELSE << >>])

KingPossibleMoves(b, p) ==
    Concat([i \in 1 .. Len(KingDirections) |->
      LET d == KingDirections[i]
          r == p.pos[1] + d[1]
          c == p.pos[2] + d[2]
          queenside ==
              IF  /\ d = <<0, -1>>
                  /\ ~IsSquareOccupied(b, r, c)
                  /\ ~IsSquareOccupied(b, r, c - 1)
                  /\ ~IsSquareOccupied(b, r, c - 2)
                  /\ ~(p.amtMove > 0)
                  /\ \/ p.color = White /\ ~HasMoved(b, b.wRookLeft)
                     \/ p.color = Black /\ ~HasMoved(b, b.bRookLeft)
              THEN << <<r, c - 1>> >> ELSE << >>
          kingside ==
              IF  /\ d = <<0, 1>>
                  /\ ~IsSquareOccupied(b, r, c)
                  /\ ~IsSquareOccupied(b, r, c + 1)
                  /\ ~(p.amtMove > 0)
                  /\ \/ p.color = White /\ ~HasMoved(b, b.wRookRight)
                     \/ p.color = Black /\ ~HasMoved(b, b.bRookRight)
              THEN << <<r, c + 1>> >> ELSE << >>
      IN  IF OnBoard(r, c)
          THEN queenside \o kingside \o StepTarget(b, p, r, c)
          ELSE << >>])

\* a faulty pawn: no double advance from the starting row
PawnSingleStep(b, p) ==
    LET fwd == IF p.color = White THEN -1 ELSE 1
        nextRow == p.pos[1] + fwd
        capture(c) == IF  /\ IsSquareOccupied(b, nextRow, c)
                          /\ GetPieceAtPosition(b, nextRow, c).color # p.color
                      THEN << <<nextRow, c>> >> ELSE << >>
    IN  IF nextRow >= 0 /\ nextRow <= 7
        THEN (IF ~IsSquareOccupied(b, nextRow, p.pos[2])
              THEN << <<nextRow, p.pos[2]>> >> ELSE << >>)
             \o capture(p.pos[2] - 1) \o capture(p.pos[2] + 1)
        ELSE << >>

\* a faulty pawn: a diagonal square is taken whatever the colour of its occupant
PawnCapturesOwn(b, p) ==
    LET fwd == IF p.color = White THEN -1 ELSE 1
        startRow == IF p.color = White THEN 6 ELSE 1
        nextRow == p.pos[1] + fwd
        single == IF ~IsSquareOccupied(b, nextRow, p.pos[2])
                  THEN << <<nextRow, p.pos[2]>> >> ELSE << >>
        double == IF  /\ ~IsSquareOccupied(b, nextRow, p.pos[2])
                      /\ p.pos[1] = startRow
                      /\ ~IsSquareOccupied(b, nextRow + fwd, p.pos[2])
                  THEN << <<nextRow + fwd, p.pos[2]>> >> ELSE << >>
        capture(c) == IF IsSquareOccupied(b, nextRow, c)
                      THEN << <<nextRow, c>> >> ELSE << >>
    IN  IF nextRow >= 0 /\ nextRow <= 7
        THEN single \o double \o capture(p.pos[2] - 1) \o capture(p.pos[2] + 1)
        ELSE << >>

PawnPossibleMoves(b, p) ==
    LET fwd == IF p.color = White THEN -1 ELSE 1
        startRow == IF p.color = White THEN 6 ELSE 1
        row == p.pos[1]
        col == p.pos[2]
        nextRow == row + fwd
        single == IF ~IsSquareOccupied(b, nextRow, col)
                  THEN << <<nextRow, col>> >> ELSE << >>
        double == IF  /\ ~IsSquareOccupied(b, nextRow, col)
                      /\ row = startRow
                      /\ ~IsSquareOccupied(b, nextRow + fwd, col)
                  THEN << <<nextRow + fwd, col>> >> ELSE << >>
        capture(c) == IF  /\ IsSquareOccupied(b, nextRow, c)
                          /\ GetPieceAtPosition(b, nextRow, c).color # p.color
                      THEN << <<nextRow, c>> >> ELSE << >>
    IN  IF nextRow >= 0 /\ nextRow <= 7
        THEN single \o double \o capture(col - 1) \o capture(col + 1)
        ELSE << >>

\* piece.possibleMoves(board): dispatch on the class of the object
PossibleMoves(b, id) ==
    LET p == b.pieces[id]
    IN  CASE p.kind = Pawn -> PawnPossibleMoves(b, p)
          [] p.kind = Knight -> KnightPossibleMoves(b, p)
          [] p.kind = Bishop -> BishopPossibleMoves(b, p)
          [] p.kind = Rook -> RookPossibleMoves(b, p)
          [] p.kind = Queen -> QueenPossibleMoves(b, p)
          [] p.kind = King -> KingPossibleMoves(b, p)

-----------------------------------------------------------------------------
(* Board *)

BackRank == <<Rook, Knight, Bishop, Queen, King, Bishop, Knight, Rook>>


\* new Board(): the standard arrangement and the six cached handles
InitialBoard ==
    [grid |-> Table([i \in 1 .. 64 |-> InitId((i - 1) \div 8, (i - 1) % 8)]),
     pieces |-> Table([id \in PieceIds |->
        CASE id <= 8 -> NewPiece(BackRank[id], Black, <<0, id - 1>>)
          [] id >= 9 /\ id <= 16 ->
                [NewPiece(Pawn, Black, <<1, id - 9>>) EXCEPT !.prev = <<1, id - 9>>]
          [] id >= 17 /\ id <= 24 ->
                [NewPiece(Pawn, White, <<6, id - 17>>) EXCEPT !.prev = <<6, id - 17>>]
          [] OTHER -> NewPiece(BackRank[id - 24], White, <<7, id - 25>>)]),
     wKing |-> InitId(7, 4),
     bKing |-> InitId(0, 4),
     wRookLeft |-> InitId(7, 0),
     wRookRight |-> InitId(7, 7),
     bRookLeft |-> InitId(0, 0),
     bRookRight |-> InitId(0, 7)]

\* the flattened index of the square holding object id, 0 if none does (the
\* object's own position is tried first)
GridIndex(b, id) ==
    LET pos == b.pieces[id].pos
    IN  IF pos # Null /\ b.grid[Idx(pos[1], pos[2])] = id THEN Idx(pos[1], pos[2])
        ELSE IF \E i \in 1 .. 64 : b.grid[i] = id
        THEN CHOOSE i \in 1 .. 64 : b.grid[i] = id
        ELSE 0

OnGrid(b, id) == GridIndex(b, id) # 0

\* Board.clone(): a fresh object per occupied square (Pawns keep enPassantMoves),
\* then fresh King and Rook objects for the handles, the two kings put on the grid
\* at their handles' positions.
Clone(b) ==
    LET fresh(p) == [NewPiece(p.kind, p.color, p.pos) EXCEPT
                        !.ep = IF p.kind = Pawn THEN p.ep ELSE Null]
        handleKing(p) == [NewPiece(King, p.color, p.pos) EXCEPT
                        !.amtMove = p.amtMove, !.check = p.check]
        handleRook(p) == [NewPiece(Rook, p.color, p.pos) EXCEPT
                        !.amtMove = p.amtMove, !.avail = p.avail]
        wk == b.pieces[b.wKing]
        bk == b.pieces[b.bKing]
        grid1 == [b.grid EXCEPT ![Idx(wk.pos[1], wk.pos[2])] = b.wKing]
        grid2 == [grid1 EXCEPT ![Idx(bk.pos[1], bk.pos[2])] = b.bKing]
    IN  [grid |-> grid2,
         pieces |-> Table([id \in 1 .. CloneRookBR |->
            CASE id = b.wKing -> handleKing(wk)
              [] id = b.bKing -> handleKing(bk)
              [] id = CloneRookWL -> handleRook(b.pieces[b.wRookLeft])
              [] id = CloneRookWR -> handleRook(b.pieces[b.wRookRight])
              [] id = CloneRookBL -> handleRook(b.pieces[b.bRookLeft])
              [] id = CloneRookBR -> handleRook(b.pieces[b.bRookRight])
              [] OTHER -> IF OnGrid(b, id) THEN fresh(b.pieces[id]) ELSE Dead]),
         wKing |-> b.wKing,
         bKing |-> b.bKing,
         wRookLeft |-> CloneRookWL,
         wRookRight |-> CloneRookWR,
         bRookLeft |-> CloneRookBL,
         bRookRight |-> CloneRookBR]

SetGrid(b, r, c, id) == [b EXCEPT !.grid[Idx(r, c)] = id]

\* the heap holding the objects of b and, after them, room for the objects of a
\* clone of b
JointHeap(b, objects) ==
    Table([a \in 1 .. 2 * CloneRookBR |->
        IF a > CloneRookBR THEN objects[a - CloneRookBR]
        ELSE IF a \in DOMAIN b.pieces THEN b.pieces[a] ELSE Dead])

\* a faulty clone: the grid is copied but not the objects on it, and the handles
\* are those of b
ShallowClone(b) ==
    [b EXCEPT !.pieces = JointHeap(b, Clone(b).pieces)]

\* the object Board.clone() creates for the object id of the cloned board: a new
\* object, allocated after the objects of the cloned board
Fresh(id) == IF id = 0 THEN 0 ELSE id + CloneRookBR

\* Board.clone() with the objects it creates allocated beside those of b in one
\* heap: what the clone's grid and handles refer to are the new objects.  cl is the
\* clone on a heap of its own.
Allocated(b, cl) ==
    [grid |-> Table([i \in 1 .. 64 |-> Fresh(cl.grid[i])]),
     pieces |-> JointHeap(b, cl.pieces),
     wKing |-> Fresh(cl.wKing),
     bKing |-> Fresh(cl.bKing),
     wRookLeft |-> Fresh(cl.wRookLeft),
     wRookRight |-> Fresh(cl.wRookRight),
     bRookLeft |-> Fresh(cl.bRookLeft),
     bRookRight |-> Fresh(cl.bRookRight)]

JointClone(b) == Allocated(b, Clone(b))

\* the corner a never-moved king's destination selects, and where its occupant goes
CastlingCorner(to) ==
    CASE to = <<7, 6>> -> <<7, 7>>
      [] to = <<7, 2>> -> <<7, 0>>
      [] to = <<0, 6>> -> <<0, 7>>
      [] to = <<0, 2>> -> <<0, 0>>
      [] OTHER -> Null

CastlingRookTo(to) ==
    CASE to = <<7, 6>> -> <<7, 5>>
      [] to = <<7, 2>> -> <<7, 3>>
      [] to = <<0, 6>> -> <<0, 5>>
      [] to = <<0, 2>> -> <<0, 3>>
      [] OTHER -> Null

\* Board.movePiece(fromPosition, toPosition) in the order of its statements.  Each
\* part maps [b, threw] to [b, threw]: the board so far, and whether the method
\* has thrown a TypeError (b is then the board at the throw).

\* a faulty en passant branch: nothing is removed
KeepEnPassantTarget(b, from, to) == [b |-> b, threw |-> FALSE]

\* the en passant removal: the square behind the destination is emptied when the
\* moving object's enPassantMoves equals the destination.  Reading the field of an
\* empty origin square throws, and so does indexing a row outside the grid.
RemoveEnPassant(b, from, to) ==
    LET p == At(b, from[1], from[2])
        row == IF b.pieces[p].color = White THEN to[1] + 1 ELSE to[1] - 1
    IN  IF p = 0 THEN [b |-> b, threw |-> TRUE]
        ELSE IF b.pieces[p].ep # to THEN [b |-> b, threw |-> FALSE]
        ELSE IF row \notin Rows THEN [b |-> b, threw |-> TRUE]
        ELSE [b |-> SetGrid(b, row, to[2], 0), threw |-> FALSE]

\* a never-moved king going to one of the four castling squares: whatever stands in
\* the corner is put beside the king; writing the position of a null entry throws
MoveCastlingRook(b, to) ==
    LET corner == CastlingCorner(to)
        rookTo == CastlingRookTo(to)
        moved == At(b, corner[1], corner[2])
        grid == SetGrid(SetGrid(b, rookTo[1], rookTo[2], moved), corner[1], corner[2], 0)
    IN  IF corner = Null THEN [b |-> b, threw |-> FALSE]
        ELSE IF moved = 0 THEN [b |-> grid, threw |-> TRUE]
        ELSE [b |-> [grid EXCEPT !.pieces[moved].pos = rookTo], threw |-> FALSE]

\* a faulty king branch: the move is not counted
KingMoveUncounted(r, p) ==
    IF r.threw THEN r
    ELSE IF r.b.pieces[p].color = White
    THEN [r EXCEPT !.b.wKing = p]
    ELSE [r EXCEPT !.b.bKing = p]

\* this.wKing = king or this.bKing = king, and king.amtMove++
CountKingMove(r, p) ==
    IF r.threw THEN r
    ELSE IF r.b.pieces[p].color = White
    THEN [r EXCEPT !.b.wKing = p, !.b.pieces[p].amtMove = @ + 1]
    ELSE [r EXCEPT !.b.bKing = p, !.b.pieces[p].amtMove = @ + 1]

\* the King / Rook branches (the Rook branch builds a function it never calls, so
\* no rook handle changes) and the Pawn's previousCoordinate
CountMove(r, from, to) ==
    LET p == At(r.b, from[1], from[2])
        kind == r.b.pieces[p].kind
    IN  IF r.threw \/ p = 0 THEN r
        ELSE IF kind = King /\ ~HasMoved(r.b, p)
        THEN CountKingMove(MoveCastlingRook(r.b, to), p)
        ELSE IF kind = King THEN CountKingMove(r, p)
        ELSE IF kind = Rook THEN [r EXCEPT !.b.pieces[p].amtMove = @ + 1]
        ELSE IF kind = Pawn THEN [r EXCEPT !.b.pieces[p].prev = from]
        ELSE r

\* the last three statements: the destination takes the origin's entry, the origin
\* is emptied, the moved object's position is written (a TypeError on null)
Relocate(r, from, to) ==
    LET p == At(r.b, from[1], from[2])
        grid == SetGrid(SetGrid(r.b, to[1], to[2], p), from[1], from[2], 0)
    IN  IF r.threw THEN r
        ELSE IF p = 0 THEN [b |-> grid, threw |-> TRUE]
        ELSE [b |-> [grid EXCEPT !.pieces[p].pos = to], threw |-> FALSE]

BoardMovePiece(b, from, to) ==
    Relocate(CountMove(RemoveEnPassant(b, from, to), from, to), from, to)

\* piece.possibleMoves(board) of the object on every square, by flattened index
PiecesMoves(b) ==
    Table([i \in 1 .. 64 |->
        IF b.grid[i] = 0 THEN << >> ELSE PossibleMoves(b, b.grid[i])])

\* board.getAllPiecesMoves(turn, board): the moves of every piece of one colour, in
\* grid order; pm holds the possibleMoves of each square's object.
RECURSIVE AllPiecesMovesFrom(_, _, _, _)
AllPiecesMovesFrom(b, color, pm, i) ==
    IF i > 64 THEN << >>
    ELSE (IF b.grid[i] # 0 /\ b.pieces[b.grid[i]].color = color
          THEN pm[i] ELSE << >>)
         \o AllPiecesMovesFrom(b, color, pm, i + 1)

\* the side effect of getAllPiecesMoves(color, b): each possibleMoves call rewrites
\* the availableMoves of the piece it is called on
Refreshed(color, b, pm) ==
    [b EXCEPT !.pieces = Table([id \in DOMAIN b.pieces |->
        IF OnGrid(b, id) /\ b.pieces[id].color = color
        THEN [b.pieces[id] EXCEPT !.avail = pm[GridIndex(b, id)]]
        ELSE b.pieces[id]])]

-----------------------------------------------------------------------------
(* Rules.  A value g is the engine: the fields of Rules, the board, the Game     *)
(* object's own gameSituation property and the click binding, together with the  *)
(* control state of the running handler: threw (a TypeError ended it) and ret    *)
(* (the value the last method returned).  A method maps g to g and does nothing  *)
(* once the handler has thrown.                                                  *)

KingOf(b, color) == IF color = White THEN b.wKing ELSE b.bKing

RECURSIVE FirstIndex(_, _, _)
FirstIndex(seq, x, i) ==
    IF i > Len(seq) THEN 0
    ELSE IF seq[i] = x THEN i ELSE FirstIndex(seq, x, i + 1)

\* a faulty validateTurn: the colour of the clicked piece is not compared to the turn
ValidateTurnAnyPiece(g, click) ==
    At(g.board, click[1], click[2]) # 0

\* Rules.validateTurn(uiClick)
ValidateTurn(g, click) ==
    /\ At(g.board, click[1], click[2]) # 0
    /\ GetPieceAtPosition(g.board, click[1], click[2]).color = g.turn

\* Rules.switchTurn()
SwitchTurn(g) == [g EXCEPT !.turn = IF g.turn = White THEN Black ELSE White]

\* a faulty validateUiMove: any square of the board is accepted
ValidateUiMoveAnySquare(g, click) ==
    OnBoard(click[1], click[2])

\* Rules.validateUiMove(uiClick)
ValidateUiMove(g, click) ==
    \E i \in 1 .. Len(g.board.pieces[g.selectedPiece].avail) :
        g.board.pieces[g.selectedPiece].avail[i] = click

\* Rules.checkRowForPawn(row): the first column holding a Pawn, 8 if none
RECURSIVE FirstPawnColumn(_, _, _)
FirstPawnColumn(b, row, i) ==
    IF i > 7 THEN 8
    ELSE IF At(b, row, i) # 0 /\ GetPieceAtPosition(b, row, i).kind = Pawn THEN i
         ELSE FirstPawnColumn(b, row, i + 1)

CheckRowForPawn(g, row) ==
    IF FirstPawnColumn(g.board, row, 0) <= 7
    THEN [g EXCEPT !.pawnInPromotion = <<row, FirstPawnColumn(g.board, row, 0)>>,
                   !.ret = TRUE]
    ELSE [g EXCEPT !.ret = FALSE]

\* Rules.checkPawnPromotion()
PromotionRow(g) == IF g.turn = White THEN 0 ELSE 7

CheckPawnPromotion(g) == CheckRowForPawn(g, PromotionRow(g))

\* checkVerifyForWhiteTeam / checkVerifyForBlackTeam inside checkVerification:
\* whether a move of the other colour lands on the team's king handle
TeamInCheck(b, team) ==
    LET pos == b.pieces[KingOf(b, team)].pos
        opp == Other(team)
    IN  \E i \in 1 .. 64 :
            /\ b.grid[i] # 0
            /\ b.pieces[b.grid[i]].color = opp
            /\ pos \in Range(PossibleMoves(b, b.grid[i]))

\* ... and the check flag of the king k when that closure returns, moves being the
\* other colour's moves: every move before the first hit clears the flag
CheckFlagAfter(moves, k, mode) ==
    IF FirstIndex(moves, k.pos, 1) > 0
    THEN IF mode = "actual" THEN TRUE
         ELSE IF FirstIndex(moves, k.pos, 1) > 1 THEN FALSE ELSE k.check
    ELSE IF Len(moves) > 0 THEN FALSE ELSE k.check

\* the body of checkVerification once both move lists are computed: the team of
\* the piece is examined first, the other team only if the first is not in check
Verified(g, mode, color, pieceMovesWhites, pieceMovesBlacks) ==
    LET b == g.board
        own == KingOf(b, color)
        opp == KingOf(b, Other(color))
        against(team) == IF team = White THEN pieceMovesBlacks ELSE pieceMovesWhites
        hit(team) == b.pieces[KingOf(b, team)].pos \in Range(against(team))
    IN  [g EXCEPT
            !.board.pieces[own].check =
                CheckFlagAfter(against(color), b.pieces[own], mode),
            !.board.pieces[opp].check =
                IF hit(color) THEN @
                ELSE CheckFlagAfter(against(Other(color)), b.pieces[opp], mode),
            !.ret = IF hit(color) THEN color
                    ELSE IF hit(Other(color)) THEN Other(color)
                    ELSE "undefined"]

VerifiedWith(g, mode, color, pm) ==
    Verified([g EXCEPT !.board = Refreshed(Black, Refreshed(White, @, pm), pm)],
             mode, color,
             AllPiecesMovesFrom(g.board, White, pm, 1),
             AllPiecesMovesFrom(g.board, Black, pm, 1))

\* Rules.checkVerification(board, mode, piece) on the live board, color being
\* piece.color: ret is the colour returned ("undefined" when no king is hit)
CheckVerification(g, mode, color) ==
    IF g.threw THEN g ELSE VerifiedWith(g, mode, color, PiecesMoves(g.board))

\* Rules.filterPieceMove(staticAvailableMoves, piece, mode): [avail, threw], avail
\* being piece.availableMoves when the method returns or throws.  cl is
\* this.board.clone(): every move is tried on a fresh clone of the unchanged live
\* board.  checkVerification returns piece.color exactly when the piece's own king
\* is hit on the clone.  The loop runs over the list it was given; a move found
\* unsafe is filtered out of the list assigned to the piece after each iteration.
Outcome(mv, color) ==
    IF mv.threw THEN "threw"
    ELSE IF TeamInCheck(mv.b, color) THEN "unsafe" ELSE "safe"

Outcomes(b, cl, static, id) ==
    Table([i \in 1 .. Len(static) |->
        Outcome(BoardMovePiece(cl, b.pieces[id].pos, static[i]), b.pieces[id].color)])

Filtered(avail, static, outcomes) ==
    LET n == Len(static)
        stop == IF \E i \in 1 .. n : outcomes[i] = "threw"
                THEN CHOOSE i \in 1 .. n :
                        /\ outcomes[i] = "threw"
                        /\ \A j \in 1 .. i - 1 : outcomes[j] # "threw"
                ELSE n + 1
        removed == {static[j] : j \in {k \in 1 .. stop - 1 : outcomes[k] = "unsafe"}}
        keep(move) == move \notin removed
    IN  [avail |-> IF stop = 1 \/ n = 0 THEN avail ELSE SelectSeq(static, keep),
         threw |-> stop <= n]

FilterPieceMove(b, cl, static, id) ==
    Filtered(b.pieces[id].avail, static, Outcomes(b, cl, static, id))

\* Rules.filterAllMoves(): every piece's availableMoves is filtered in place, in
\* grid order, and the pieces of each colour left with a move are counted.  The
\* filter of a piece reads only that piece and the unchanged grid.
FilterAllPieces(b, cl) ==
    Table([i \in 1 .. 64 |->
        IF b.grid[i] = 0 THEN [avail |-> << >>, threw |-> FALSE]
        ELSE FilterPieceMove(b, cl, b.pieces[b.grid[i]].avail, b.grid[i])])

\* ... res[i] being the filter's result for the object on square i; the loop ends
\* at the first filter that throws, before the counters are stored.
WithFiltered(g, res) ==
    LET b == g.board
        stop == IF \E i \in 1 .. 64 : res[i].threw
                THEN CHOOSE i \in 1 .. 64 :
                        /\ res[i].threw
                        /\ \A j \in 1 .. i - 1 : ~res[j].threw
                ELSE 65
        counted(color) == Cardinality({i \in 1 .. 64 :
                              /\ b.grid[i] # 0
                              /\ b.pieces[b.grid[i]].color = color
                              /\ Len(res[i].avail) # 0})
        pieces == Table([id \in DOMAIN b.pieces |->
                     IF GridIndex(b, id) # 0 /\ GridIndex(b, id) <= stop
                     THEN [b.pieces[id] EXCEPT !.avail = res[GridIndex(b, id)].avail]
                     ELSE b.pieces[id]])
    IN  IF stop <= 64
        THEN [g EXCEPT !.board.pieces = pieces, !.threw = TRUE]
        ELSE [g EXCEPT !.board.pieces = pieces,
                       !.availableMovesWhite = counted(White),
                       !.availableMovesBlacks = counted(Black),
                       !.ret = IF g.turn = White THEN counted(Black)
                               ELSE counted(White)]

FilterAllMoves(g) ==
    IF g.threw THEN g
    ELSE WithFiltered(g, FilterAllPieces(g.board, Clone(g.board)))

\* Rules.checkMateVerify(): return this.filterAllMoves() === 0
NoMoveLeft(r) == IF r.threw THEN r ELSE [r EXCEPT !.ret = (r.ret = 0)]

CheckMateVerify(g) == NoMoveLeft(FilterAllMoves(g))

\* Rules.staleMateVerification(): both branches test the black king's flag
StaleMateVerdict(r) ==
    IF r.threw THEN r
    ELSE IF /\ r.ret = 0
            /\ IF r.turn = White THEN ~r.board.pieces[r.board.bKing].check
               ELSE ~r.board.pieces[r.board.bKing].check
    THEN [r EXCEPT !.gameSituation = Stalemate, !.ret = Stalemate]
    ELSE [r EXCEPT !.ret = r.gameSituation]

StaleMateVerification(g) == StaleMateVerdict(FilterAllMoves(g))

\* Rules.checkEnPassant()
CheckEnPassant(g) ==
    LET b == g.board
        t == g.enPassantTarget
    IN
    IF t = 0 THEN g
    ELSE
    LET captured == b.pieces[t]
        row == IF captured.color = White THEN 4 ELSE 3
        col == captured.pos[2]
        capturing(c) == /\ OnBoard(row, c)
                        /\ At(b, row, c) # 0
                        /\ GetPieceAtPosition(b, row, c).color # captured.color
        left == IF capturing(col - 1) THEN <<At(b, row, col - 1)>> ELSE << >>
        right == IF capturing(col + 1) THEN <<At(b, row, col + 1)>> ELSE << >>
        capturingPieces == left \o right
        square == IF captured.color = White
                  THEN <<captured.pos[1] + 1, col>>
                  ELSE <<captured.pos[1] - 1, col>>
        pushed == Table([id \in DOMAIN b.pieces |->
                     IF id \in Range(capturingPieces)
                     THEN [b.pieces[id] EXCEPT !.avail = Append(@, square)]
                     ELSE b.pieces[id]])
    IN  IF Len(capturingPieces) # 0
        THEN [g EXCEPT !.board.pieces =
                 [pushed EXCEPT ![g.selectedPiece].ep = square]]
        ELSE g

\* the body of checkPossibleCastling once the opponent's moves are computed: a
\* move onto the squares beside the king's home square, or any move at all while
\* the king's check flag is set, takes the castling squares off the king's list
CastlingVeto(g, pieceMoves) ==
    LET k == KingOf(g.board, g.turn)
        home == IF g.turn = White THEN 7 ELSE 0
        disqualifies(move) ==
            \/ move[1] = home /\ move[2] > 0 /\ move[2] < 4
            \/ move[1] = home /\ move[2] > 4 /\ move[2] < 7
            \/ g.board.pieces[k].check = TRUE
        notCastling(kingMove) ==
            ~(kingMove[1] = home /\ (kingMove[2] = 2 \/ kingMove[2] = 6))
    IN  IF \E i \in 1 .. Len(pieceMoves) : disqualifies(pieceMoves[i])
        THEN [g EXCEPT !.board.pieces[k].avail = SelectSeq(@, notCastling)]
        ELSE g

CastlingVetoWith(g, pm) ==
    CastlingVeto([g EXCEPT !.board = Refreshed(Other(g.turn), @, pm)],
                 AllPiecesMovesFrom(g.board, Other(g.turn), pm, 1))

\* Rules.checkPossibleCastling()
CheckPossibleCastling(g) ==
    IF g.threw THEN g ELSE CastlingVetoWith(g, PiecesMoves(g.board))

\* a faulty verdict: the check verification of the filter was run on the live
\* board, so that a removed move leaves the check flag of the live king set
SafetyVerdictOnLive(g, id, r) ==
    LET k == KingOf(g.board, g.board.pieces[id].color)
        g1 == [g EXCEPT !.board.pieces[id].avail = r.avail,
                        !.board.pieces[k].check =
                            @ \/ Len(r.avail) < Len(g.board.pieces[id].avail)]
    IN  IF r.threw THEN [g1 EXCEPT !.threw = TRUE]
        ELSE IF Len(g1.board.pieces[g1.selectedPiece].avail) # 0
        THEN [g1 EXCEPT !.ret = TRUE]
        ELSE [g1 EXCEPT !.state = ChoosingPiece, !.ret = FALSE]

\* Rules.filterMovesForKingSafety(availableMoves, piece).  Both branches (a king in
\* check or not) run the same filter; only the mode differs.  r is the filter's
\* result.
SafetyVerdict(g, id, r) ==
    LET g1 == [g EXCEPT !.board.pieces[id].avail = r.avail]
    IN  IF r.threw THEN [g1 EXCEPT !.threw = TRUE]
        ELSE IF Len(g1.board.pieces[g1.selectedPiece].avail) # 0
        THEN [g1 EXCEPT !.ret = TRUE]
        ELSE [g1 EXCEPT !.state = ChoosingPiece, !.ret = FALSE]

FilterMovesForKingSafety(g, id) ==
    SafetyVerdict(g, id,
        FilterPieceMove(g.board, Clone(g.board), g.board.pieces[id].avail, id))

-----------------------------------------------------------------------------
(* Game *)

\* a faulty end of choosePiece: the en-passant target is kept
HighlightedKeepsTarget(f) ==
    IF f.threw \/ ~f.ret THEN f
    ELSE [CheckEnPassant(f) EXCEPT !.state = MovingAPiece]

\* Game.choosePiece(uiClick, event), from the highlighting on: f is the engine
\* when filterMovesForKingSafety has returned
Highlighted(f) ==
    IF f.threw \/ ~f.ret THEN f
    ELSE [CheckEnPassant(f) EXCEPT !.enPassantTarget = 0, !.state = MovingAPiece]

\* ... from the test of clickedPiece.possibleMoves(this.board).length on
Listed(g, id) ==
    IF Len(g.board.pieces[id].avail) = 0 THEN g
    ELSE Highlighted(FilterMovesForKingSafety([g EXCEPT !.selectedPiece = id], id))

\* Game.choosePiece(uiClick, event)
ChoosePiece(g, click) ==
    IF ~ValidateTurn(g, click) THEN g
    ELSE Listed([g EXCEPT !.board.pieces[At(g.board, click[1], click[2])].avail =
                     PossibleMoves(g.board, At(g.board, click[1], click[2]))],
                At(g.board, click[1], click[2]))

\* the adjudication both Game.movePiece and Game.handlePawnPromotion run after the
\* board changed: checkVerification, checkMateVerify, staleMateVerification.
\* onGame: the "Check" is written on the Game object instead of Rules.
Checked(cv, onGame) ==
    IF onGame THEN [cv EXCEPT !.gameGameSituation = Check]
    ELSE [cv EXCEPT !.gameSituation = Check]

\* a faulty end of the checkmate branch: the click handler stays bound
MatedStillBound(m) ==
    IF m.threw THEN m
    ELSE IF m.ret THEN [m EXCEPT !.gameSituation = Checkmate]
    ELSE m

Mated(m) ==
    IF m.threw THEN m
    ELSE IF m.ret THEN [m EXCEPT !.gameSituation = Checkmate, !.clickBound = FALSE]
    ELSE m

Stopped(st) ==
    IF st.threw THEN st
    ELSE IF st.ret = Stalemate THEN [st EXCEPT !.clickBound = FALSE]
    ELSE st

Situation(cv, onGame) ==
    IF cv.threw THEN cv
    ELSE Stopped(StaleMateVerification(
            IF cv.ret # "undefined"
            THEN Mated(CheckMateVerify(Checked(cv, onGame)))
            ELSE [cv EXCEPT !.gameGameSituation = Casual]))

Adjudicate(g, onGame) ==
    IF g.threw THEN g
    ELSE Situation(CheckVerification(g, "actual",
                                     g.board.pieces[g.selectedPiece].color), onGame)

\* the double-advance test of Game.movePiece
DoubleAdvanced(g) ==
    LET sp == g.board.pieces[g.selectedPiece]
    IN  /\ sp.prev = <<IF sp.color = White THEN 6 ELSE 1, sp.pos[2]>>
        /\ sp.pos[1] = (IF sp.color = White THEN 4 ELSE 3)

\* Game.movePiece(uiClick), from the promotion test on: c is the engine when
\* checkPawnPromotion has returned
Turned(c) ==
    IF c.ret THEN [c EXCEPT !.state = PawnPromotion]
    ELSE SwitchTurn([c EXCEPT !.state = ChoosingPiece])

\* ... from the double-advance test on: a is the engine when the adjudication ended
Completed(a) ==
    IF a.threw THEN a
    ELSE Turned(CheckPawnPromotion(
            IF DoubleAdvanced(a)
            THEN CheckEnPassant([a EXCEPT !.enPassantTarget = a.selectedPiece])
            ELSE a))

\* ... this.board.movePiece(this.Rules.selectedPiece.position, uiClick)
Moved(g, mv) == [g EXCEPT !.board = mv.b, !.threw = mv.threw]

\* Game.movePiece(uiClick)
MovePiece(g, click) ==
    IF ~ValidateUiMove(g, click) THEN g
    ELSE Completed(Adjudicate(
            Moved(g, BoardMovePiece(g.board, g.board.pieces[g.selectedPiece].pos,
                                    click)),
            FALSE))

\* a faulty conversion: the new object is built on the pawn's previous coordinate
ConvertedBehind(b, sq, id, pieceConvertion) ==
    [SetGrid(b, sq[1], sq[2], id) EXCEPT
        !.pieces[id] = [pieceConvertion EXCEPT !.pos = b.pieces[id].prev]]

\* Game.handlePawnPromotion(event) for a click on the picture of `kind`, up to
\* pieceConvertion.possibleMoves(board).  The new object takes over the identifier
\* of the object it replaces on the grid.
Converted(b, sq, id, pieceConvertion) ==
    LET b1 == [SetGrid(b, sq[1], sq[2], id) EXCEPT !.pieces[id] = pieceConvertion]
    IN  [b1 EXCEPT !.pieces[id].avail = PossibleMoves(b1, id)]

Placed(g, kind) ==
    [g EXCEPT !.board =
        Converted(@, g.pawnInPromotion,
                  IF At(g.board, g.pawnInPromotion[1], g.pawnInPromotion[2]) # 0
                  THEN At(g.board, g.pawnInPromotion[1], g.pawnInPromotion[2])
                  ELSE CHOOSE i \in PieceIds : g.board.pieces[i] = Dead,
                  NewPiece(kind, g.turn, g.board.pieces[g.selectedPiece].pos))]

\* a faulty end of handlePawnPromotion: the turn is not switched
ResumedSameTurn(a) ==
    IF a.threw THEN a ELSE [a EXCEPT !.state = ChoosingPiece]

\* ... its last statements: switchTurn and the phase
Resumed(a) ==
    IF a.threw THEN a ELSE [SwitchTurn(a) EXCEPT !.state = ChoosingPiece]

\* objects no longer referenced from the grid, a handle or Rules are dropped
Handles(b) == {b.wKing, b.bKing, b.wRookLeft, b.wRookRight, b.bRookLeft, b.bRookRight}

Collect(g) ==
    [g EXCEPT !.board.pieces = Table([id \in DOMAIN g.board.pieces |->
        IF \/ OnGrid(g.board, id)
           \/ id \in Handles(g.board)
           \/ id = g.selectedPiece
           \/ id = g.enPassantTarget
        THEN g.board.pieces[id] ELSE Dead])]

\* the end of an event handler: it returns nothing
EndOfHandler(g) == Collect([g EXCEPT !.ret = "undefined"])

HandlePawnPromotion(g, kind) ==
    EndOfHandler(Resumed(Adjudicate(
        CheckVerification(Placed(g, kind), "actual", g.turn), TRUE)))

\* a faulty handleKeyPress: the selection is kept
HandleKeyPressKeepsSelection(g) ==
    IF  /\ g.selectedPiece # 0
        /\ g.state = MovingAPiece
        /\ g.gameSituation # Checkmate
    THEN [g EXCEPT !.state = ChoosingPiece]
    ELSE g

\* Game.handleKeyPress(event) for the Escape key
HandleKeyPress(g) ==
    IF  /\ g.selectedPiece # 0
        /\ g.state = MovingAPiece
        /\ g.gameSituation # Checkmate
    THEN [g EXCEPT !.state = ChoosingPiece, !.selectedPiece = 0]
    ELSE g

\* Game.handleSquareClick(event) on a board square.  In the promotion phase
\* handlePawnPromotion looks for the picture under the click; a board square has
\* none and imgSrc.includes throws.
HandleSquareClick(g, click) ==
    EndOfHandler(
        CASE g.state = ChoosingPiece -> CheckPossibleCastling(ChoosePiece(g, click))
          [] g.state = MovingAPiece -> MovePiece(g, click)
          [] g.state = PawnPromotion -> [g EXCEPT !.threw = TRUE]
          [] OTHER -> g)

-----------------------------------------------------------------------------
\* The bundled copy, src/logic.js.  Its Rules, Board and piece classes and the
\* other methods of its Game are, statement for statement, those modelled above;
\* its Game.choosePiece assigns the phase after the test of the filter's result
\* instead of inside it.
BundledHighlighted(f) ==
    IF f.threw THEN f
    ELSE IF ~f.ret THEN [f EXCEPT !.state = MovingAPiece]
    ELSE [CheckEnPassant(f) EXCEPT !.enPassantTarget = 0, !.state = MovingAPiece]

BundledListed(g, id) ==
    IF Len(g.board.pieces[id].avail) = 0 THEN g
    ELSE BundledHighlighted(
            FilterMovesForKingSafety([g EXCEPT !.selectedPiece = id], id))

\* Game.choosePiece(uiClick, event) of src/logic.js
BundledChoosePiece(g, click) ==
    IF ~ValidateTurn(g, click) THEN g
    ELSE BundledListed(
            [g EXCEPT !.board.pieces[At(g.board, click[1], click[2])].avail =
                PossibleMoves(g.board, At(g.board, click[1], click[2]))],
            At(g.board, click[1], click[2]))

\* Game.handleSquareClick(event) of src/logic.js
BundledHandleSquareClick(g, click) ==
    EndOfHandler(
        CASE g.state = ChoosingPiece ->
                CheckPossibleCastling(BundledChoosePiece(g, click))
          [] g.state = MovingAPiece -> MovePiece(g, click)
          [] g.state = PawnPromotion -> [g EXCEPT !.threw = TRUE]
          [] OTHER -> g)

(* The state machine *)

\* new Game(): new Board(), new Rules(board)
InitialGame ==
    [board |-> InitialBoard,
     turn |-> White,
     selectedPiece |-> 0,
     gameSituation |-> Casual,
     state |-> ChoosingPiece,
     enPassantTarget |-> 0,
     pawnInPromotion |-> Null,
     availableMovesBlacks |-> 10,
     availableMovesWhite |-> 10,
     gameGameSituation |-> "undefined",
     clickBound |-> TRUE,
     threw |-> FALSE,
     ret |-> "undefined"]

\* the engine as an event finds it
Cur ==
    [board |-> board, turn |-> turn, selectedPiece |-> selectedPiece,
     gameSituation |-> gameSituation, state |-> state,
     enPassantTarget |-> enPassantTarget, pawnInPromotion |-> pawnInPromotion,
     availableMovesBlacks |-> availableMovesBlacks,
     availableMovesWhite |-> availableMovesWhite,
     gameGameSituation |-> gameGameSituation, clickBound |-> clickBound,
     threw |-> FALSE, ret |-> "undefined"]

\* the engine as the handler leaves it
Becomes(g) ==
    /\ board' = g.board
    /\ turn' = g.turn
    /\ selectedPiece' = g.selectedPiece
    /\ gameSituation' = g.gameSituation
    /\ state' = g.state
    /\ enPassantTarget' = g.enPassantTarget
    /\ pawnInPromotion' = g.pawnInPromotion
    /\ availableMovesBlacks' = g.availableMovesBlacks
    /\ availableMovesWhite' = g.availableMovesWhite
    /\ gameGameSituation' = g.gameGameSituation
    /\ clickBound' = g.clickBound
    /\ threw' = g.threw

\* the clicks of some openings, a click being the square clicked
\* 1.f3 e5 2.g4
FoolsOpening == << <<6, 5>>, <<5, 5>>, <<1, 4>>, <<3, 4>>, <<6, 6>>, <<4, 6>> >>
\* 1.e4 e5 2.Qh5 Nc6 3.Bc4 Nf6
ScholarsOpening == << <<6, 4>>, <<4, 4>>, <<1, 4>>, <<3, 4>>, <<7, 3>>, <<3, 7>>,
                      <<0, 1>>, <<2, 2>>, <<7, 5>>, <<4, 2>>, <<0, 6>>, <<2, 5>> >>
\* 1.h4 g5 2.hxg5 h6 3.gxh6 a6 4.h7 a5
RookPawnOpening == << <<6, 7>>, <<4, 7>>, <<1, 6>>, <<3, 6>>, <<4, 7>>, <<3, 6>>,
                      <<1, 7>>, <<2, 7>>, <<3, 6>>, <<2, 7>>, <<1, 0>>, <<2, 0>>,
                      <<2, 7>>, <<1, 7>>, <<2, 0>>, <<3, 0>> >>
\* 1.e4 e5 2.d4 exd4 3.e5 Qe7 4.a3
CentreOpening == << <<6, 4>>, <<4, 4>>, <<1, 4>>, <<3, 4>>, <<6, 3>>, <<4, 3>>,
                    <<3, 4>>, <<4, 3>>, <<4, 4>>, <<3, 4>>, <<0, 3>>, <<1, 4>>,
                    <<6, 0>>, <<5, 0>> >>
\* 1.g4 b6 2.Nh3 Bb7 3.Ng5 Bxh1 4.Bh3
LongDiagonalOpening == << <<6, 6>>, <<4, 6>>, <<1, 1>>, <<2, 1>>, <<7, 6>>, <<5, 7>>,
                          <<0, 2>>, <<1, 1>>, <<5, 7>>, <<3, 6>>, <<1, 1>>, <<7, 7>>,
                          <<7, 5>>, <<5, 7>> >>

\* 1.e4 e5 2.Qh5 Nc6 3.Qxf7+
QueenRaidOpening == << <<6, 4>>, <<4, 4>>, <<1, 4>>, <<3, 4>>, <<7, 3>>, <<3, 7>>,
                       <<0, 1>>, <<2, 2>>, <<3, 7>>, <<1, 5>> >>

\* 1.d3 d5 2.a3 d4, the e2 pawn selected
BlockedPawnOpening == << <<6, 3>>, <<5, 3>>, <<1, 3>>, <<3, 3>>, <<6, 0>>, <<5, 0>>,
                         <<3, 3>>, <<4, 3>>, <<6, 4>> >>

\* 1.Nf3 a6 2.Ne5 d5
KnightOpening == << <<7, 6>>, <<5, 5>>, <<1, 0>>, <<2, 0>>, <<5, 5>>, <<3, 4>>,
                    <<1, 3>>, <<3, 3>> >>

\* 1.Nf3 d6 2.g3 Bf5 3.Bg2 a6 4.c3 a5
FianchettoOpening == << <<7, 6>>, <<5, 5>>, <<1, 3>>, <<2, 3>>, <<6, 6>>, <<5, 6>>,
                        <<0, 2>>, <<3, 5>>, <<7, 5>>, <<6, 6>>, <<1, 0>>, <<2, 0>>,
                        <<6, 2>>, <<5, 2>>, <<2, 0>>, <<3, 0>> >>

\* 1.d4 Nf6 2.d5 g6 3.d6 Bg7 4.dxe7 c6 5.a3 Qb6 6.a4
PassedPawnOpening == << <<6, 3>>, <<4, 3>>, <<0, 6>>, <<2, 5>>, <<4, 3>>, <<3, 3>>,
                        <<1, 6>>, <<2, 6>>, <<3, 3>>, <<2, 3>>, <<0, 5>>, <<1, 6>>,
                        <<2, 3>>, <<1, 4>>, <<1, 2>>, <<2, 2>>, <<6, 0>>, <<5, 0>>,
                        <<0, 3>>, <<2, 1>>, <<5, 0>>, <<4, 0>> >>

\* 1.e4 a6 2.Ke2 a5 3.Ke1 a4 4.Nf3 b6 5.Be2 b5
KingWalkOpening == << <<6, 4>>, <<4, 4>>, <<1, 0>>, <<2, 0>>, <<7, 4>>, <<6, 4>>,
                      <<2, 0>>, <<3, 0>>, <<6, 4>>, <<7, 4>>, <<3, 0>>, <<4, 0>>,
                      <<7, 6>>, <<5, 5>>, <<1, 1>>, <<2, 1>>, <<7, 5>>, <<6, 4>>,
                      <<2, 1>>, <<3, 1>> >>

\* 1.a4 h5 2.a5 h4 3.a6 h3 4.axb7 hxg2 5.Nf3, the g2 pawn selected
PawnRaceOpening == << <<6, 0>>, <<4, 0>>, <<1, 7>>, <<3, 7>>, <<4, 0>>, <<3, 0>>,
                      <<3, 7>>, <<4, 7>>, <<3, 0>>, <<2, 0>>, <<4, 7>>, <<5, 7>>,
                      <<2, 0>>, <<1, 1>>, <<5, 7>>, <<6, 6>>, <<7, 6>>, <<5, 5>>,
                      <<6, 6>> >>

\* 1.d4 Nf6 2.d5 Nh5 3.d6 g6 4.dxe7 Bh6 5.Qd5 Rf8 6.Qe5 a6 7.Bg5 a5, the e7 pawn
\* selected
DiscoveryOpening == << <<6, 3>>, <<4, 3>>, <<0, 6>>, <<2, 5>>, <<4, 3>>, <<3, 3>>,
                       <<2, 5>>, <<3, 7>>, <<3, 3>>, <<2, 3>>, <<1, 6>>, <<2, 6>>,
                       <<2, 3>>, <<1, 4>>, <<0, 5>>, <<2, 7>>, <<7, 3>>, <<3, 3>>,
                       <<0, 7>>, <<0, 5>>, <<3, 3>>, <<3, 4>>, <<1, 0>>, <<2, 0>>,
                       <<7, 2>>, <<3, 6>>, <<2, 0>>, <<3, 0>>, <<1, 4>> >>

\* 1.e4 d6 2.Bc4 Bg4 3.Nh3 a6 4.Kf1 a5
KingStepOpening == << <<6, 4>>, <<4, 4>>, <<1, 3>>, <<2, 3>>, <<7, 5>>, <<4, 2>>,
                      <<0, 2>>, <<4, 6>>, <<7, 6>>, <<5, 7>>, <<1, 0>>, <<2, 0>>,
                      <<7, 4>>, <<7, 5>>, <<2, 0>>, <<3, 0>> >>

\* 1.h3 e6 2.a3 Ke7 3.a4 Kf6 4.b3 h5 5.b4 h4 6.c3 Kg5 7.c4 Kh5 8.d3 g6 9.a5 Rh6,
\* the g2 pawn selected
KingHuntOpening == << <<6, 7>>, <<5, 7>>, <<1, 4>>, <<2, 4>>, <<6, 0>>, <<5, 0>>,
                      <<0, 4>>, <<1, 4>>, <<5, 0>>, <<4, 0>>, <<1, 4>>, <<2, 5>>,
                      <<6, 1>>, <<5, 1>>, <<1, 7>>, <<3, 7>>, <<5, 1>>, <<4, 1>>,
                      <<3, 7>>, <<4, 7>>, <<6, 2>>, <<5, 2>>, <<2, 5>>, <<3, 6>>,
                      <<5, 2>>, <<4, 2>>, <<3, 6>>, <<3, 7>>, <<6, 3>>, <<5, 3>>,
                      <<1, 6>>, <<2, 6>>, <<4, 0>>, <<3, 0>>, <<0, 7>>, <<2, 7>>,
                      <<6, 6>> >>

\* 1.e4 e5 2.d4 exd4 3.e5 Qe7 4.a3 f6 5.a4 Kf7 6.Bc4+ d5, the e5 pawn selected
PinnedPawnOpening == << <<6, 4>>, <<4, 4>>, <<1, 4>>, <<3, 4>>, <<6, 3>>, <<4, 3>>,
                        <<3, 4>>, <<4, 3>>, <<4, 4>>, <<3, 4>>, <<0, 3>>, <<1, 4>>,
                        <<6, 0>>, <<5, 0>>, <<1, 5>>, <<2, 5>>, <<5, 0>>, <<4, 0>>,
                        <<0, 4>>, <<1, 5>>, <<7, 5>>, <<4, 2>>, <<1, 3>>, <<3, 3>>,
                        <<3, 4>> >>

\* the click sequences the model's starts are reached by: nothing, the openings,
\* and some openings continued by a selection (2.Qh5 selected again, the h7 pawn
\* selected), by 4...d5 and by 4...d5 5.exd6, by 4...a6
Openings ==
    { << >>,
      FoolsOpening,
      QueenRaidOpening,
      ScholarsOpening \o << <<3, 7>> >>,
      RookPawnOpening \o << <<1, 7>> >>,
      CentreOpening \o << <<1, 3>>, <<3, 3>> >>,
      CentreOpening \o << <<1, 3>>, <<3, 3>>, <<3, 4>>, <<2, 3>> >>,
      LongDiagonalOpening,
      BlockedPawnOpening,
      KnightOpening,
      FianchettoOpening,
      PassedPawnOpening,
      LongDiagonalOpening \o << <<1, 0>>, <<2, 0>> >>,
      KingWalkOpening,
      PawnRaceOpening,
      DiscoveryOpening,
      KingStepOpening,
      KingHuntOpening,
      PinnedPawnOpening }

\* the engine after the clicks are delivered to g, one after the other (up to the
\* first one whose handler throws or unbinds the click handler)
RECURSIVE After(_, _)
After(g, clicks) ==
    IF clicks = << >> \/ g.threw \/ ~g.clickBound THEN g
    ELSE After(HandleSquareClick(g, Head(clicks)), Tail(clicks))

\* 1.e4 e5 2.d4 exd4 3.e5 Qe7 4.a3 d5, the a3 pawn selected, then the Escape key
DeselectedStart ==
    EndOfHandler(HandleKeyPress(
        After(InitialGame, CentreOpening \o << <<1, 3>>, <<3, 3>>, <<5, 0>> >>)))

\* the states the model starts from
Starts == {After(InitialGame, clicks) : clicks \in Openings} \cup {DeselectedStart}

\* bound on the number of events delivered from a start
MaxEvents == 2

\* what a click on a square is, seen from the state it arrives in (the Escape key
\* is recorded with the phase it arrives in)
\* ... a piece of the side to move: without a pseudo-legal move ("immobile"), with
\* every pseudo-legal move removed by the legality filter ("pinned"), or with a
\* move left ("free"); the filter may also throw
Safety(r) ==
    IF r.threw THEN "throws" ELSE IF r.avail = << >> THEN "pinned" ELSE "free"

Mobility(b, id, moves) ==
    IF moves = << >> THEN "immobile"
    ELSE Safety(FilterPieceMove(b, Clone(b), moves, id))

SelectClass(g, click) ==
    IF At(g.board, click[1], click[2]) = 0 THEN "empty"
    ELSE IF GetPieceAtPosition(g.board, click[1], click[2]).color # g.turn
    THEN "opponent"
    ELSE Mobility(g.board, At(g.board, click[1], click[2]),
                  PossibleMoves(g.board, At(g.board, click[1], click[2])))

MoveClass(g, click) ==
    IF click \in Range(g.board.pieces[g.selectedPiece].avail) THEN "listed"
    ELSE IF click = g.board.pieces[g.selectedPiece].pos THEN "origin"
    ELSE IF At(g.board, click[1], click[2]) # 0
            /\ GetPieceAtPosition(g.board, click[1], click[2]).color = g.turn
    THEN "own" ELSE "unlisted"

\* a click on a board square while a piece is to be chosen
Select(sq) ==
    /\ clickBound
    /\ state = ChoosingPiece
    /\ events < MaxEvents
    /\ Becomes(HandleSquareClick(Cur, sq))
    /\ last' = [kind |-> "select", what |-> SelectClass(Cur, sq)]
    /\ events' = events + 1

\* a click on a board square while a piece is selected
Move(sq) ==
    /\ clickBound
    /\ state = MovingAPiece
    /\ events < MaxEvents
    /\ Becomes(HandleSquareClick(Cur, sq))
    /\ last' = [kind |-> "move", what |-> MoveClass(Cur, sq)]
    /\ events' = events + 1

\* a click on a board square while the board fades out for the promotion picker
StrayClick(sq) ==
    /\ clickBound
    /\ state = PawnPromotion
    /\ events < MaxEvents
    /\ Becomes(HandleSquareClick(Cur, sq))
    /\ last' = [kind |-> "stray", what |-> "board"]
    /\ events' = events + 1

\* a click on one of the four pictures of the promotion picker
Promote(kind) ==
    /\ clickBound
    /\ state = PawnPromotion
    /\ events < MaxEvents
    /\ Becomes(HandlePawnPromotion(Cur, kind))
    /\ last' = [kind |-> "promote", what |-> kind]
    /\ events' = events + 1

\* the Escape key
Deselect ==
    /\ events < MaxEvents
    /\ Becomes(EndOfHandler(HandleKeyPress(Cur)))
    /\ last' = [kind |-> "deselect", what |-> state]
    /\ events' = events + 1

\* a click after $("table").off("click", "td"): no handler runs
UnboundClick ==
    /\ ~clickBound
    /\ events < MaxEvents
    /\ last' = [kind |-> "click", what |-> "unbound"]
    /\ threw' = FALSE
    /\ events' = events + 1
    /\ UNCHANGED <<board, turn, state, gameSituation, selectedPiece, enPassantTarget,
                   pawnInPromotion, availableMovesWhite, availableMovesBlacks,
                   gameGameSituation, clickBound>>

PromotionKinds == {Knight, Bishop, Rook, Queen}

Init ==
    /\ \E g \in Starts :
          /\ board = g.board
          /\ turn = g.turn
          /\ selectedPiece = g.selectedPiece
          /\ gameSituation = g.gameSituation
          /\ state = g.state
          /\ enPassantTarget = g.enPassantTarget
          /\ pawnInPromotion = g.pawnInPromotion
          /\ availableMovesBlacks = g.availableMovesBlacks
          /\ availableMovesWhite = g.availableMovesWhite
          /\ gameGameSituation = g.gameGameSituation
          /\ clickBound = g.clickBound
          /\ threw = g.threw
    /\ last = [kind |-> "start", what |-> "start"]
    /\ events = 0

Next ==
    \/ \E sq \in Squares : Select(sq)
    \/ \E sq \in Squares : Move(sq)
    \/ \E sq \in Squares : StrayClick(sq)
    \/ \E kind \in PromotionKinds : Promote(kind)
    \/ Deselect
    \/ UnboundClick

Spec == Init /\ [][Next]_vars

-----------------------------------------------------------------------------
(* The claims *)

\* the squares of the live grid holding a king of the colour
KingSquares(color) ==
    {i \in 1 .. 64 : /\ board.grid[i] # 0
                     /\ board.pieces[board.grid[i]].kind = King
                     /\ board.pieces[board.grid[i]].color = color}

\* C1: in every reachable state the live grid holds exactly one White king and
\* exactly one Black king (no accepted move removes a king), and no piece stands
\* on two squares.
C1_OneKingEach ==
    /\ Cardinality(KingSquares(White)) = 1
    /\ Cardinality(KingSquares(Black)) = 1
    /\ \A i, j \in 1 .. 64 :
          (i # j /\ board.grid[i] # 0) => board.grid[i] # board.grid[j]

\* the move of piece id to `to`, applied by Board.movePiece, leaves the king of the
\* piece's colour on a square an opposing pseudo-legal move targets
LeavesKingAttacked(b, id, to) ==
    TeamInCheck(BoardMovePiece(b, b.pieces[id].pos, to).b, b.pieces[id].color)

\* C2: self-check exclusion.  For a piece that has been selected successfully,
\* every destination in the list Game.movePiece validates against leads, when
\* applied by Board.movePiece, to a position in which no opposing pseudo-legal
\* move targets the mover's own king's square.
C2_SelfCheckExclusion ==
    (state = MovingAPiece /\ last.kind \in {"select", "start"}) =>
        \A i \in 1 .. Len(board.pieces[selectedPiece].avail) :
            ~LeavesKingAttacked(board, selectedPiece,
                                board.pieces[selectedPiece].avail[i])

\* the colour has no legal move on b: every pseudo-legal move of every one of its
\* pieces cannot be made or leaves its own king attacked
NoLegalMove(b, color) ==
    \A i \in 1 .. 64 :
        (b.grid[i] # 0 /\ b.pieces[b.grid[i]].color = color) =>
            \A m \in Range(PossibleMoves(b, b.grid[i])) :
                \/ BoardMovePiece(b, b.pieces[b.grid[i]].pos, m).threw
                \/ LeavesKingAttacked(b, b.grid[i], m)

\* C3: after an accepted move that leaves the opponent (the side now to move)
\* without a legal move, the recorded situation is Checkmate if the opponent's
\* king's square is attacked and Stalemate if it is not, for either colour.
C3_MateOrStalemate ==
    (/\ last.kind = "move"
     /\ last.what = "listed"
     /\ ~threw
     /\ state = ChoosingPiece
     /\ NoLegalMove(board, turn)) =>
        gameSituation = (IF TeamInCheck(board, turn) THEN Checkmate ELSE Stalemate)

\* the grid and the position of every piece are the same before and after the step
SameGrid == board'.grid = board.grid

SamePositions ==
    \A id \in DOMAIN board.pieces :
        /\ id \in DOMAIN board'.pieces
        /\ board'.pieces[id].pos = board.pieces[id].pos

\* the step C4_Terminal constrains
C4_Terminal_Step ==
    gameSituation \in {Checkmate, Stalemate} =>
       /\ SameGrid
       /\ SamePositions
       /\ gameSituation' = gameSituation
       /\ state' = state
       /\ turn' = turn
       /\ selectedPiece' = selectedPiece

PawnOnFarRank(b, color) ==
    \E c \in 0 .. 7 :
        /\ At(b, IF color = White THEN 0 ELSE 7, c) # 0
        /\ GetPieceAtPosition(b, IF color = White THEN 0 ELSE 7, c).kind = Pawn
        /\ GetPieceAtPosition(b, IF color = White THEN 0 ELSE 7, c).color = color

\* the step C5_TurnAlternation constrains
C5_TurnAlternation_Step ==
    /\ (last'.kind = "move" /\ last'.what = "listed") =>
          IF PawnOnFarRank(board', turn)
          THEN state' = PawnPromotion /\ turn' = turn
          ELSE state' = ChoosingPiece /\ turn' = Other(turn)
    /\ (\/ last'.kind \in {"select", "deselect"}
        \/ (last'.kind = "move" /\ last'.what # "listed")) =>
          turn' = turn

\* C5: turn alternation.  An accepted move that does not put a pawn of the mover on
\* its farthest rank toggles the turn and returns the phase to ChoosingPiece; one
\* that does enters PawnPromotion with the turn unchanged; select, deselect and
\* rejected moves never change the turn.
C5_TurnAlternation == [][C5_TurnAlternation_Step]_vars

\* the step C6_IllegalDestination constrains
C6_IllegalDestination_Step ==
    (last'.kind = "move" /\ last'.what # "listed") =>
       /\ SameGrid
       /\ turn' = turn
       /\ gameSituation' = gameSituation
       /\ selectedPiece' = selectedPiece
       /\ state = MovingAPiece
       /\ state' = MovingAPiece

\* C6: illegal destination.  In phase MovingAPiece a click on a square that is not
\* in the selected piece's list (another own piece and the origin square included)
\* leaves the grid, the turn, the situation, the selected piece and the phase
\* MovingAPiece unchanged.
C6_IllegalDestination == [][C6_IllegalDestination_Step]_vars

\* a click on another own piece has been delivered while a piece was selected
C6_Witness ==
    /\ last.kind = "move"
    /\ last.what = "own"
    /\ state = MovingAPiece

\* the step C7_InvalidSelection constrains
C7_InvalidSelection_Step ==
    (/\ last'.kind = "select"
     /\ last'.what \in {"empty", "opponent", "immobile", "pinned"}) =>
       /\ state = ChoosingPiece
       /\ state' = ChoosingPiece
       /\ SameGrid
       /\ turn' = turn

\* C7: invalid selection.  In phase ChoosingPiece, selecting an empty square, a
\* piece of the side not to move, a piece without a pseudo-legal move or a piece
\* all of whose pseudo-legal moves the legality filter removes leaves the phase
\* ChoosingPiece and the grid and the turn unchanged.
C7_InvalidSelection == [][C7_InvalidSelection_Step]_vars

\* a piece all of whose pseudo-legal moves the filter removes has been clicked
C7_Witness ==
    /\ last.kind = "select"
    /\ last.what = "pinned"
    /\ state = ChoosingPiece

\* the step C8_Deselect constrains
C8_Deselect_Step ==
    (/\ last'.kind = "deselect"
     /\ state = MovingAPiece
     /\ gameSituation # Checkmate) =>
       /\ state' = ChoosingPiece
       /\ selectedPiece' = 0
       /\ SameGrid
       /\ SamePositions
       /\ \A id \in DOMAIN board.pieces :
             board'.pieces[id].amtMove = board.pieces[id].amtMove
       /\ turn' = turn

\* C8: deselect.  In phase MovingAPiece with a situation other than Checkmate the
\* Escape key returns the phase to ChoosingPiece and clears the selected piece; the
\* grid, every piece's position and move counter, and the turn are unchanged.
C8_Deselect == [][C8_Deselect_Step]_vars

\* the Escape key has been pressed while a piece was selected
C8_Witness ==
    /\ last.kind = "deselect"
    /\ last.what = MovingAPiece
    /\ state = ChoosingPiece
    /\ selectedPiece = 0

\* the step C9_Promotion constrains
C9_Promotion_Step ==
    last'.kind = "promote" =>
       LET i == Idx(pawnInPromotion[1], pawnInPromotion[2])
           old == board.pieces[board.grid[i]]
           new == board'.pieces[board'.grid[i]]
       IN  /\ board.grid[i] # 0
           /\ old.kind = Pawn
           /\ pawnInPromotion[1] = (IF old.color = White THEN 0 ELSE 7)
           /\ board'.grid[i] # 0
           /\ new.kind = last'.what
           /\ new.color = old.color
           /\ \A j \in (1 .. 64) \ {i} :
                 /\ board'.grid[j] = board.grid[j]
                 /\ board.grid[j] # 0 =>
                       /\ board'.pieces[board.grid[j]].kind =
                             board.pieces[board.grid[j]].kind
                       /\ board'.pieces[board.grid[j]].color =
                             board.pieces[board.grid[j]].color
           /\ turn' = Other(turn)
           /\ state' = ChoosingPiece

\* C9: promotion.  In phase PawnPromotion a click on the picture of a kind replaces
\* the pawn standing on the farthest rank by a piece of that kind, of the same
\* colour, on the same square, changes no other square, toggles the turn and
\* returns the phase to ChoosingPiece.
C9_Promotion == [][C9_Promotion_Step]_vars

\* the white pawn that took on g8 has been promoted to a knight
C9_Witness ==
    /\ last.kind = "promote"
    /\ last.what = Knight
    /\ At(board, 0, 6) # 0
    /\ GetPieceAtPosition(board, 0, 6).kind = Knight
    /\ GetPieceAtPosition(board, 0, 6).color = White
    /\ turn = Black
    /\ state = ChoosingPiece

\* C10: no internal error.  Every select, move, promote and deselect event runs to
\* completion without an exception.
C10_NoException ==
    last.kind \in {"select", "move", "promote", "deselect"} => ~threw

\* the square a double-advanced pawn passed over
PassedOver(p) ==
    IF p.color = White THEN <<p.pos[1] + 1, p.pos[2]>> ELSE <<p.pos[1] - 1, p.pos[2]>>

\* the move just accepted was a pawn's double advance
JustDoubleAdvanced ==
    /\ last.kind = "move"
    /\ last.what = "listed"
    /\ ~threw
    /\ state = ChoosingPiece
    /\ selectedPiece # 0
    /\ board.pieces[selectedPiece].kind = Pawn
    /\ DoubleAdvanced(Cur)

\* the opposing pawns standing laterally adjacent to the piece
AdjacentOpposingPawns(b, id) ==
    {q \in PieceIds :
        /\ OnGrid(b, q)
        /\ b.pieces[q].kind = Pawn
        /\ b.pieces[q].color # b.pieces[id].color
        /\ b.pieces[q].pos[1] = b.pieces[id].pos[1]
        /\ b.pieces[q].pos[2] \in {b.pieces[id].pos[2] - 1, b.pieces[id].pos[2] + 1}}

\* a destination in the piece's list that is an en-passant capture: a square in
\* another column that is empty
EnPassantCaptures(b, id) ==
    {m \in Range(b.pieces[id].avail) :
        m[2] # b.pieces[id].pos[2] /\ At(b, m[1], m[2]) = 0}

\* C11: en passant window.  Right after a pawn's double advance that lands beside an
\* opposing pawn, the opponent's selection of that pawn yields a list containing the
\* square passed over; and after any accepted move no pawn's list holds an
\* en-passant capture other than that of the pawn that has just double-advanced.
C11_EnPassantWindow ==
    /\ JustDoubleAdvanced =>
          \A q \in AdjacentOpposingPawns(board, selectedPiece) :
              PassedOver(board.pieces[selectedPiece]) \in
                  Range(HandleSquareClick(Cur, board.pieces[q].pos).board.pieces[q].avail)
    /\ (last.kind = "move" /\ last.what = "listed" /\ ~threw) =>
          \A q \in PieceIds :
              (OnGrid(board, q) /\ board.pieces[q].kind = Pawn) =>
                  \A m \in EnPassantCaptures(board, q) :
                      /\ JustDoubleAdvanced
                      /\ m = PassedOver(board.pieces[selectedPiece])

\* the step C12_EnPassantCapture constrains: the selected pawn goes to an empty
\* square of another column in its list
C12_EnPassantCapture_Step ==
    LET from == board.pieces[selectedPiece].pos
        to == board'.pieces[selectedPiece].pos
        behind == <<from[1], to[2]>>
    IN  (/\ state = MovingAPiece
         /\ last'.kind = "move"
         /\ last'.what = "listed"
         /\ board.pieces[selectedPiece].kind = Pawn
         /\ to[2] # from[2]
         /\ At(board, to[1], to[2]) = 0) =>
           /\ At(board, behind[1], behind[2]) # 0
           /\ GetPieceAtPosition(board, behind[1], behind[2]).kind = Pawn
           /\ GetPieceAtPosition(board, behind[1], behind[2]).color =
                 Other(board.pieces[selectedPiece].color)
           /\ board'.grid = [board.grid EXCEPT ![Idx(from[1], from[2])] = 0,
                                               ![Idx(to[1], to[2])] = selectedPiece,
                                               ![Idx(behind[1], behind[2])] = 0]

\* C12: en passant capture effect.  When a pawn moves to the en-passant capture
\* square offered to it, the double-advanced pawn is removed from its own square
\* (directly behind the destination), the capturing pawn ends on the passed-over
\* square, and no other square changes.
C12_EnPassantCapture == [][C12_EnPassantCapture_Step]_vars

\* the white pawn on e5 has captured the d5 pawn en passant, on d6
C12_Witness ==
    /\ last.kind = "move"
    /\ last.what = "listed"
    /\ turn = Black
    /\ selectedPiece # 0
    /\ board.pieces[selectedPiece].kind = Pawn
    /\ board.pieces[selectedPiece].pos = <<2, 3>>
    /\ board.pieces[selectedPiece].prev = <<3, 4>>
    /\ At(board, 2, 3) = selectedPiece
    /\ At(board, 3, 3) = 0
    /\ At(board, 3, 4) = 0

\* the opposing double-advanced pawns standing laterally adjacent to the piece
AdjacentTargets(b, id) ==
    {q \in AdjacentOpposingPawns(b, id) :
        /\ b.pieces[q].prev = <<IF b.pieces[q].color = White THEN 6 ELSE 1,
                                b.pieces[q].pos[2]>>
        /\ b.pieces[q].pos[1] = (IF b.pieces[q].color = White THEN 4 ELSE 3)}

\* C13: only pawns capture en passant.  The list of a selected knight, bishop, rook,
\* queen or king standing beside a double-advanced opposing pawn does not gain the
\* square that pawn passed over: it holds that square only if it is one of the
\* piece's own pseudo-legal moves.
C13_OnlyPawnsEnPassant ==
    (/\ state = MovingAPiece
     /\ last.kind \in {"select", "start"}
     /\ board.pieces[selectedPiece].kind # Pawn) =>
        \A q \in AdjacentTargets(board, selectedPiece) :
            PassedOver(board.pieces[q]) \in
                    Range(board.pieces[selectedPiece].avail) =>
                PassedOver(board.pieces[q]) \in
                    Range(PossibleMoves(board, selectedPiece))

\* the piece attacks the square: a pawn attacks the two squares diagonally ahead of
\* it, any other piece the squares its pseudo-legal moves reach
Attacks(b, id, sq) ==
    IF b.pieces[id].kind = Pawn
    THEN /\ sq[1] = b.pieces[id].pos[1] + (IF b.pieces[id].color = White THEN -1 ELSE 1)
         /\ sq[2] \in {b.pieces[id].pos[2] - 1, b.pieces[id].pos[2] + 1}
    ELSE sq \in Range(PossibleMoves(b, id))

\* a piece of the colour standing on the grid attacks the square
AttackedBy(b, color, sq) ==
    \E i \in 1 .. 64 :
        /\ b.grid[i] # 0
        /\ b.pieces[b.grid[i]].color = color
        /\ Attacks(b, b.grid[i], sq)

HomeRow(color) == IF color = White THEN 7 ELSE 0

\* the king of the colour stands unmoved on its home square, with a never-moved rook
\* of its colour in the corner of the given column
UnmovedKingAndRook(b, color, corner) ==
    /\ At(b, HomeRow(color), 4) = KingOf(b, color)
    /\ b.pieces[KingOf(b, color)].kind = King
    /\ b.pieces[KingOf(b, color)].amtMove = 0
    /\ At(b, HomeRow(color), corner) # 0
    /\ GetPieceAtPosition(b, HomeRow(color), corner).kind = Rook
    /\ GetPieceAtPosition(b, HomeRow(color), corner).color = color
    /\ GetPieceAtPosition(b, HomeRow(color), corner).amtMove = 0

\* the rules allow the colour to castle kingside on b
KingsideCastlingDue(b, color) ==
    /\ UnmovedKingAndRook(b, color, 7)
    /\ At(b, HomeRow(color), 5) = 0
    /\ At(b, HomeRow(color), 6) = 0
    /\ ~AttackedBy(b, Other(color), <<HomeRow(color), 4>>)
    /\ ~AttackedBy(b, Other(color), <<HomeRow(color), 5>>)
    /\ ~AttackedBy(b, Other(color), <<HomeRow(color), 6>>)

\* C14: castling availability.  When the side to move has selected its king, king
\* and kingside rook have never moved, the squares between them are empty, the king
\* is not in check and no opposing piece attacks a square between them, the list
\* the move is validated against holds the kingside castling square, whatever
\* happens on the queenside.
C14_CastlingAvailable ==
    (/\ state = MovingAPiece
     /\ last.kind = "select"
     /\ selectedPiece = KingOf(board, turn)
     /\ KingsideCastlingDue(board, turn)) =>
        <<HomeRow(turn), 6>> \in Range(board.pieces[selectedPiece].avail)

\* C15: castling veto under attack.  When the side to move has selected its king on
\* its home square, the kingside castling square is not in the king's list if an
\* opposing piece of any kind (a pawn attacks diagonally) attacks the king or a
\* square it would cross or land on (columns 5 and 6), and the queenside castling
\* square is not in it if one attacks the king or column 3 or 2.
C15_CastlingVeto ==
    (/\ state = MovingAPiece
     /\ last.kind = "select"
     /\ selectedPiece = KingOf(board, turn)
     /\ board.pieces[selectedPiece].pos = <<HomeRow(turn), 4>>) =>
        /\ (\E c \in {4, 5, 6} : AttackedBy(board, Other(turn), <<HomeRow(turn), c>>)) =>
              <<HomeRow(turn), 6>> \notin Range(board.pieces[selectedPiece].avail)
        /\ (\E c \in {4, 3, 2} : AttackedBy(board, Other(turn), <<HomeRow(turn), c>>)) =>
              <<HomeRow(turn), 2>> \notin Range(board.pieces[selectedPiece].avail)

\* the selected piece is the never-moved king of the side to move, on its home square
KingSelectedAtHome ==
    /\ state = MovingAPiece
    /\ selectedPiece # 0
    /\ selectedPiece = KingOf(board, turn)
    /\ board.pieces[selectedPiece].kind = King
    /\ board.pieces[selectedPiece].amtMove = 0
    /\ board.pieces[selectedPiece].pos = <<HomeRow(turn), 4>>

\* a castling square is offered only when the corner on its side holds the king's
\* own never-moved rook
C16_Offered ==
    KingSelectedAtHome =>
        /\ <<HomeRow(turn), 6>> \in Range(board.pieces[selectedPiece].avail) =>
              UnmovedKingAndRook(board, turn, 7)
        /\ <<HomeRow(turn), 2>> \in Range(board.pieces[selectedPiece].avail) =>
              UnmovedKingAndRook(board, turn, 0)

\* the step in which the king goes to the castling square of column `to`, the corner
\* being in column `corner` and the square the king crosses in column `crossed`
CastlingApplied(to, corner, crossed) ==
    (/\ KingSelectedAtHome
     /\ last'.kind = "move"
     /\ last'.what = "listed"
     /\ board'.pieces[selectedPiece].pos = <<HomeRow(turn), to>>) =>
        /\ UnmovedKingAndRook(board, turn, corner)
        /\ board'.grid[Idx(HomeRow(turn), crossed)] = At(board, HomeRow(turn), corner)
        /\ board'.grid[Idx(HomeRow(turn), corner)] = 0
        /\ board'.grid[Idx(HomeRow(turn), to)] = selectedPiece

\* the step C16_CastlingEffect constrains
C16_Applied_Step ==
    /\ CastlingApplied(6, 7, 5)
    /\ CastlingApplied(2, 0, 3)

\* C16: castling effect.  When a never-moved king moves two squares along its back
\* rank, the piece relocated with it is a rook of its own colour taken from the
\* corresponding corner, which ends on the square the king crossed, the corner left
\* empty; and a castling move is never offered or applied when that corner does not
\* hold the king's own never-moved rook.
C16_CastlingEffect == []C16_Offered /\ [][C16_Applied_Step]_vars

\* the king and the two corner rooks Board.initializeBoard gave the colour
OriginalKing(color) == InitId(HomeRow(color), 4)
OriginalRook(color, corner) == InitId(HomeRow(color), corner)

\* the destinations in the selected piece's list two columns to the side given by
\* dc, on the row it stands on
TwoSquareMoves(dc) ==
    {m \in Range(board.pieces[selectedPiece].avail) :
        /\ m[1] = board.pieces[selectedPiece].pos[1]
        /\ m[2] = board.pieces[selectedPiece].pos[2] + 2 * dc}

\* no castling square is offered to a selected king that has moved, nor on the side
\* of an original corner rook that has moved
C17_NotOffered ==
    (/\ state = MovingAPiece
     /\ last.kind \in {"select", "start"}
     /\ selectedPiece = OriginalKing(turn)) =>
        /\ board.pieces[selectedPiece].amtMove > 0 =>
              TwoSquareMoves(1) \cup TwoSquareMoves(-1) = {}
        /\ board.pieces[OriginalRook(turn, 7)].amtMove > 0 => TwoSquareMoves(1) = {}
        /\ board.pieces[OriginalRook(turn, 0)].amtMove > 0 => TwoSquareMoves(-1) = {}

\* the step C17_CastlingRightsLost constrains: every move of a king or of a rook is
\* counted on the object, and the counters of the kings and the original rooks
\* never decrease
C17_Counted_Step ==
    /\ (/\ last'.kind = "move"
        /\ last'.what = "listed"
        /\ board.pieces[selectedPiece].kind \in {King, Rook}
        /\ board'.pieces[selectedPiece].pos # board.pieces[selectedPiece].pos) =>
           board'.pieces[selectedPiece].amtMove = board.pieces[selectedPiece].amtMove + 1
    /\ \A color \in {White, Black} :
          \A id \in {OriginalKing(color), OriginalRook(color, 0), OriginalRook(color, 7)} :
              board'.pieces[id].amtMove >= board.pieces[id].amtMove

Opponent == IF state = PawnPromotion THEN Other(turn) ELSE turn

\* C18: the situation tracks the position.  After an accepted move that leaves
\* neither king attacked and the opponent with a legal move, Rules.gameSituation is
\* Casual, also when it was Check before and the move resolved the check.
C18_SituationTracksPosition ==
    (/\ last.kind = "move"
     /\ last.what = "listed"
     /\ ~threw
     /\ ~TeamInCheck(board, White)
     /\ ~TeamInCheck(board, Black)
     /\ ~NoLegalMove(board, Opponent)) =>
        gameSituation = Casual

\* the position, move counter, check flag and en-passant marker of every object of
\* the board b are in the heap of c what they are in b
LiveUntouched(b, c) ==
    \A id \in DOMAIN b.pieces :
        /\ c.pieces[id].pos = b.pieces[id].pos
        /\ c.pieces[id].amtMove = b.pieces[id].amtMove
        /\ c.pieces[id].check = b.pieces[id].check
        /\ c.pieces[id].ep = b.pieces[id].ep
        /\ c.pieces[id].kind = b.pieces[id].kind
        /\ c.pieces[id].color = b.pieces[id].color

\* the clone c after c.movePiece(from, to) and, unless that threw, the check
\* verification on c for the piece moved
Verify(r, color) ==
    IF r.threw THEN r.b
    ELSE CheckVerification([Cur EXCEPT !.board = r.b], "actual", color).board

AfterCloneMove(c, id, to) ==
    Verify(BoardMovePiece(c, c.pieces[id].pos, to), c.pieces[id].color)

\* the destinations tried for an object of c: its pseudo-legal moves (captures and
\* castling among them) and the square of its en-passant marker
Destinations(c, id) ==
    Range(PossibleMoves(c, id)) \cup
        (IF c.pieces[id].ep = Null THEN {} ELSE {c.pieces[id].ep})

CloneIndependent(b, c) ==
    \A i \in 1 .. 64 :
        c.grid[i] # 0 =>
            \A to \in Destinations(c, c.grid[i]) :
                LiveUntouched(b, AfterCloneMove(c, c.grid[i], to))

\* the live board is as an accepted move, a promotion or the offer of an en-passant
\* capture has left it (any other event changes no field that Board.clone() copies)
BoardChanged ==
    \/ last.kind \in {"start", "promote"}
    \/ last.kind = "move" /\ last.what = "listed"
    \/ /\ last.kind = "select"
       /\ state = MovingAPiece
       /\ board.pieces[selectedPiece].ep # Null

\* the clone refers to none of the objects of b
Unshared(b, c) ==
    /\ \A i \in 1 .. 64 : c.grid[i] \notin DOMAIN b.pieces
    /\ Handles(c) \cap DOMAIN b.pieces = {}
    /\ CloneIndependent(b, c)

\* C19: board clone independence.  For the live board B of every reachable state,
\* after c = B.clone(), any c.movePiece(from, to) and check verification on c, the
\* position, move counter, check flag and en-passant marker of every piece of B are
\* as before, and so are B's grid and handles, which c holds no reference to.
C19_CloneIndependence ==
    BoardChanged => Unshared(board, JointClone(board))

\* an en-passant capture made on a clone of the live board has emptied the square
\* of the captured pawn on the clone and moved the clone's pawn
CloneCaptured(c, id) ==
    /\ c.pieces[id].ep # Null
    /\ AfterCloneMove(c, id, c.pieces[id].ep).grid # c.grid
    /\ AfterCloneMove(c, id, c.pieces[id].ep).pieces[id].pos = c.pieces[id].ep
    /\ At(AfterCloneMove(c, id, c.pieces[id].ep), c.pieces[id].pos[1],
          c.pieces[id].ep[2]) = 0

C19_Witness ==
    /\ state = MovingAPiece
    /\ board.pieces[selectedPiece].kind = Pawn
    /\ board.pieces[selectedPiece].ep \in Range(board.pieces[selectedPiece].avail)
    /\ CloneCaptured(JointClone(board), Fresh(selectedPiece))
    /\ LiveUntouched(board, AfterCloneMove(JointClone(board), Fresh(selectedPiece),
                                           board.pieces[selectedPiece].ep))

\* every cached handle of b refers to the object standing on the grid square its
\* position names
HandlesOnGrid(b) ==
    \A h \in Handles(b) :
        /\ b.pieces[h].pos # Null
        /\ At(b, b.pieces[h].pos[1], b.pieces[h].pos[2]) = h

\* C20: cached handles.  On the live board of every reachable state and on every
\* clone made from it, each king handle and each rook handle refers to the very
\* object that occupies the grid square given by the handle's position.
C20_CachedHandles ==
    /\ HandlesOnGrid(board)
    /\ HandlesOnGrid(Clone(board))

\* the list a selection of the object id would leave on it: possibleMoves, then
\* the legality filter (avail, and whether the filter throws)
LegalList(b, id) ==
    FilterPieceMove([b EXCEPT !.pieces[id].avail = PossibleMoves(b, id)],
                    Clone([b EXCEPT !.pieces[id].avail = PossibleMoves(b, id)]),
                    PossibleMoves(b, id), id)

\* the standard arrangement with nothing moved yet
StandardArrangement(b) ==
    /\ b.grid = InitialBoard.grid
    /\ \A id \in PieceIds :
          /\ b.pieces[id].kind = InitialBoard.pieces[id].kind
          /\ b.pieces[id].color = InitialBoard.pieces[id].color
          /\ b.pieces[id].pos = InitialBoard.pieces[id].pos
          /\ b.pieces[id].amtMove = 0

\* the legal moves of a colour, each with the piece that makes it
LegalMovesOf(b, color) ==
    UNION {{<<id, to>> : to \in Range(LegalList(b, id).avail)} :
              id \in {i \in PieceIds : OnGrid(b, i) /\ b.pieces[i].color = color}}

\* C21: initial legal-move count.  In the standard arrangement with White to move
\* the moves of the White pieces that survive the legality filter are 20 in all:
\* two for each pawn (16), two for each knight (4), none for any other piece; the
\* filter never throws there, and a selection made there lists exactly the
\* surviving moves of the selected piece.
C21_InitialMoveCount ==
    (StandardArrangement(board) /\ turn = White /\ gameSituation = Casual) =>
        /\ Cardinality(LegalMovesOf(board, White)) = 20
        /\ \A id \in PieceIds :
              board.pieces[id].color = White =>
                 /\ ~LegalList(board, id).threw
                 /\ Len(LegalList(board, id).avail) =
                       (IF board.pieces[id].kind \in {Pawn, Knight} THEN 2 ELSE 0)
                 /\ Cardinality(Range(LegalList(board, id).avail)) =
                       Len(LegalList(board, id).avail)
        /\ (state = MovingAPiece /\ last.kind = "select") =>
              board.pieces[selectedPiece].avail = LegalList(board, selectedPiece).avail

\* a knight was selected in the standard arrangement and its two moves are listed
C21_Witness ==
    /\ StandardArrangement(board)
    /\ turn = White
    /\ gameSituation = Casual
    /\ state = MovingAPiece
    /\ last.kind = "select"
    /\ board.pieces[selectedPiece].kind = Knight
    /\ Len(board.pieces[selectedPiece].avail) = 2
    /\ Cardinality(LegalMovesOf(board, White)) = 20

\* the colour that made the last promotion choice: the turn is switched only by a
\* handler that does not throw
Promoter == IF threw THEN turn ELSE Other(turn)

\* the live board with a newly constructed piece of the chosen kind and of the
\* promoter's colour on the promotion square
WithFreshPiece ==
    [board EXCEPT !.pieces[At(board, pawnInPromotion[1], pawnInPromotion[2])] =
        NewPiece(last.what, Promoter, pawnInPromotion)]

\* C22: promotion round trip.  After every promotion choice the object standing on
\* the promotion square is of the chosen kind and yields, on the resulting board,
\* the same pseudo-legal moves (and the same moves surviving the legality filter)
\* as a newly constructed piece of that kind and colour on that square.
C22_PromotionRoundTrip ==
    last.kind = "promote" =>
        LET id == At(board, pawnInPromotion[1], pawnInPromotion[2])
        IN  /\ id # 0
            /\ board.pieces[id].kind = last.what
            /\ PossibleMoves(board, id) = PossibleMoves(WithFreshPiece, id)
            /\ LegalList(board, id) = LegalList(WithFreshPiece, id)

\* Black promoted on the first rank to a piece that has a move there
C22_Witness ==
    /\ last.kind = "promote"
    /\ ~threw
    /\ pawnInPromotion # Null
    /\ pawnInPromotion[1] = 7
    /\ At(board, pawnInPromotion[1], pawnInPromotion[2]) # 0
    /\ GetPieceAtPosition(board, pawnInPromotion[1], pawnInPromotion[2]).color = Black
    /\ GetPieceAtPosition(board, pawnInPromotion[1], pawnInPromotion[2]).kind = last.what
    /\ PossibleMoves(board, At(board, pawnInPromotion[1], pawnInPromotion[2])) # << >>

\* the last event was delivered outside its phase: the Escape key while no piece
\* was selected (a piece to be chosen, or a promotion pending), or a click on
\* another piece of the side to move while a piece was selected
OutOfPhase ==
    \/ last.kind = "deselect" /\ last.what # MovingAPiece
    \/ last.kind = "move" /\ last.what = "own"

\* C23: phase violation.  An event delivered outside its phase ends in an error:
\* its handler, which returns nothing, ends in an exception, and the event is not
\* silently ignored.
C23_PhaseViolation == OutOfPhase => threw

\* C24: the bundled copy is the same state machine.  In every reachable state a
\* click on any square leaves the engine of src/logic.js in the state it leaves the
\* modular engine in (phase, turn, situation, board and every other field), so
\* that the two agree after every sequence of events; in particular a selection
\* of a piece whose pseudo-legal moves are all removed by the legality filter
\* leaves both in the phase of choosing a piece.
C24_BundledCopy ==
    \A sq \in Squares :
        /\ BundledHandleSquareClick(Cur, sq) = HandleSquareClick(Cur, sq)
        /\ (state = ChoosingPiece /\ SelectClass(Cur, sq) = "pinned") =>
              BundledHandleSquareClick(Cur, sq).state = ChoosingPiece

\* the squares a step empties
Emptied == {sq \in Squares : At(board, sq[1], sq[2]) # 0 /\ At(board', sq[1], sq[2]) = 0}

\* the objects a step takes off the grid
TakenOff == {id \in PieceIds : OnGrid(board, id) /\ ~OnGrid(board', id)}

\* the pawn on sq is an opposing pawn of the mover whose last move was its double
\* advance, and the mover is a pawn going diagonally to the empty square behind it
EnPassantOf(mover, to, sq) ==
    /\ board.pieces[mover].kind = Pawn
    /\ sq = <<board.pieces[mover].pos[1], to[2]>>
    /\ to[2] # board.pieces[mover].pos[2]
    /\ At(board, to[1], to[2]) = 0
    /\ GetPieceAtPosition(board, sq[1], sq[2]).kind = Pawn
    /\ GetPieceAtPosition(board, sq[1], sq[2]).color # board.pieces[mover].color
    /\ At(board, sq[1], sq[2]) \in AdjacentTargets(board, mover)

\* the step C25_NoStaleEnPassant constrains: an accepted move
C25_NoStaleEnPassant_Step ==
    (/\ state = MovingAPiece
     /\ last'.kind = "move"
     /\ last'.what = "listed"
     /\ ~threw') =>
        /\ Cardinality(TakenOff) <= 1
        /\ \A sq \in Emptied :
              \/ sq = board.pieces[selectedPiece].pos
              \/ /\ board.pieces[selectedPiece].kind = King
                 /\ ~HasMoved(board, selectedPiece)
                 /\ sq = CastlingCorner(board'.pieces[selectedPiece].pos)
              \/ EnPassantOf(selectedPiece, board'.pieces[selectedPiece].pos, sq)

\* C25: no stale en-passant side effect.  An accepted move empties a square other
\* than its origin (and, for castling, the rook's corner) only when the mover is a
\* pawn capturing en passant a pawn that has just double-advanced; no move of
\* another piece, and no later move of a piece carrying an en-passant marker,
\* removes the piece behind its destination, and no move takes more than one
\* piece off the board.
C25_NoStaleEnPassant == [][C25_NoStaleEnPassant_Step]_vars

\* while a promotion is pending the game is not declared over and the click
\* handler is bound
C26_Pending ==
    state = PawnPromotion =>
        /\ clickBound
        /\ gameSituation # Checkmate
        /\ gameSituation # Stalemate

\* a promotion choice made while a promotion is pending is carried out
C26_Completed_Step ==
    (state = PawnPromotion /\ last'.kind = "promote") =>
        /\ ~threw'
        /\ state' = ChoosingPiece

\* C26: a pending promotion can always be completed.  In every reachable state in
\* the promotion phase a promotion choice is accepted and leads to the phase of
\* choosing a piece; on the position in which the pawn stands unpromoted on the
\* farthest rank the engine declares neither Checkmate nor Stalemate and does not
\* unbind the click handler.
C26_PromotionCompletes == []C26_Pending /\ [][C26_Completed_Step]_vars

\* a destination one square away from the position
OneSquareAway(pos, to) ==
    /\ to # pos
    /\ to[1] - pos[1] \in {-1, 0, 1}
    /\ to[2] - pos[2] \in {-1, 0, 1}

\* C27: the castling veto withdraws castling moves only.  The list of a king that
\* has just been selected holds every destination one square away from it that
\* its pseudo-legal moves contain and the legality filter keeps, those on column 2
\* or 6 of its back rank included.
C27_VetoCastlingOnly ==
    (/\ last.kind = "select"
     /\ state = MovingAPiece
     /\ ~threw
     /\ board.pieces[selectedPiece].kind = King) =>
        \A m \in Range(LegalList(board, selectedPiece).avail) :
            OneSquareAway(board.pieces[selectedPiece].pos, m) =>
                m \in Range(board.pieces[selectedPiece].avail)

\* the pawns that may capture the pawn that has just double-advanced en passant
\* without leaving their own king attacked
EnPassantRepliers ==
    {q \in AdjacentOpposingPawns(board, selectedPiece) :
        LET sq == PassedOver(board.pieces[selectedPiece])
            mv == BoardMovePiece([board EXCEPT !.pieces[q].ep = sq],
                                 board.pieces[q].pos, sq)
        IN  ~mv.threw /\ ~TeamInCheck(mv.b, board.pieces[q].color)}

\* the pieces of the side to move whose selection lists a move
Selectable ==
    {q \in PieceIds :
        /\ OnGrid(board, q)
        /\ board.pieces[q].color = turn
        /\ HandleSquareClick(Cur, board.pieces[q].pos).state = MovingAPiece}

\* the number of pieces with a move that the adjudication stored for the side to move
StoredTotal == IF turn = White THEN availableMovesWhite ELSE availableMovesBlacks

\* C28: adjudication counts en-passant captures.  After an accepted double advance
\* of a pawn that the opponent can capture en passant the engine declares neither
\* Checkmate nor Stalemate and stays bound to the clicks, and the total the
\* adjudication stored for the opponent covers every piece whose selection
\* lists a move.
C28_EnPassantCounted ==
    (JustDoubleAdvanced /\ EnPassantRepliers # {}) =>
        /\ gameSituation # Checkmate
        /\ gameSituation # Stalemate
        /\ clickBound
        /\ StoredTotal >= Cardinality(Selectable)

\* C29: check flag accuracy.  After every accepted move and after every promotion
\* choice, the check flag of each colour's king is set exactly when a pseudo-legal
\* move of an opposing piece on the live board targets that king's square.
C29_CheckFlagAccurate ==
    (/\ \/ last.kind = "move" /\ last.what = "listed"
        \/ last.kind = "promote"
     /\ ~threw) =>
        \A color \in {White, Black} :
            board.pieces[KingOf(board, color)].check = TeamInCheck(board, color)

\* C30: promotion re-adjudicates.  After a promotion choice whose new piece attacks
\* the opposing king while the opponent still has a legal move, the game situation
\* held by Rules is Check; after a promotion choice that leaves neither king
\* attacked it is Casual.
C30_PromotionAdjudicated ==
    (last.kind = "promote" /\ ~threw) =>
        /\ (/\ Attacks(board, At(board, pawnInPromotion[1], pawnInPromotion[2]),
                       board.pieces[KingOf(board, turn)].pos)
            /\ LegalMovesOf(board, turn) # {}) => gameSituation = Check
        /\ (~TeamInCheck(board, White) /\ ~TeamInCheck(board, Black)) =>
              gameSituation = Casual

\* the step C31_SelectionOnClones constrains: a click while a piece is to be chosen
C31_SelectionOnClones_Step ==
    (state = ChoosingPiece /\ last'.kind = "select") =>
        /\ board'.grid = board.grid
        /\ \A id \in PieceIds :
              OnGrid(board, id) =>
                 /\ board'.pieces[id].kind = board.pieces[id].kind
                 /\ board'.pieces[id].color = board.pieces[id].color
                 /\ board'.pieces[id].pos = board.pieces[id].pos
                 /\ board'.pieces[id].amtMove = board.pieces[id].amtMove
                 /\ board'.pieces[id].check = board.pieces[id].check
        /\ \A h \in {"wKing", "bKing", "wRookLeft", "wRookRight",
                     "bRookLeft", "bRookRight"} : board'[h] = board[h]

\* C31: selection simulates on clones only.  A click made while a piece is to be
\* chosen, whether the selection is accepted or rejected, with its legality
\* filter and the castling veto that follows it, changes neither the occupancy of
\* the live grid nor the position, move counter or check flag of any live piece.
C31_SelectionOnClones == [][C31_SelectionOnClones_Step]_vars

\* a selection was accepted after the legality filter removed a pseudo-legal move
\* of the selected piece
C31_Witness ==
    /\ last.kind = "select"
    /\ state = MovingAPiece
    /\ ~threw
    /\ \E m \in Range(PossibleMoves(board, selectedPiece)) :
          /\ m \notin Range(board.pieces[selectedPiece].avail)
          /\ CastlingCorner(m) = Null

\* after an accepted selection the en-passant target is null
C32_Cleared ==
    (last.kind = "select" /\ state = MovingAPiece /\ ~threw) => enPassantTarget = 0

\* a selection made while the en-passant target is null lists pseudo-legal moves
\* of the selected piece only: no en-passant destination is added
C32_NotOffered_Step ==
    (/\ state = ChoosingPiece
     /\ enPassantTarget = 0
     /\ last'.kind = "select"
     /\ state' = MovingAPiece) =>
        Range(board'.pieces[selectedPiece'].avail) \subseteq
            Range(PossibleMoves(board, selectedPiece'))

\* C32: the en-passant target is cleared by selection.  After every accepted
\* selection the engine's en-passant target is null, and a selection that finds
\* it null is offered no en-passant destination: the destination is offered at
\* most to the first accepted selection after the double advance, not to a later
\* selection of the adjacent pawn in the same ply after a deselect.
C32_TargetCleared == []C32_Cleared /\ [][C32_NotOffered_Step]_vars

\* after 4...d5 a selection was made and undone, and the e5 pawn, selected next,
\* is not offered d6
C32_Witness ==
    /\ last.kind = "select"
    /\ state = MovingAPiece
    /\ enPassantTarget = 0
    /\ board.pieces[selectedPiece].kind = Pawn
    /\ board.pieces[selectedPiece].pos = <<3, 4>>
    /\ AdjacentTargets(board, selectedPiece) # {}
    /\ At(board, 3, 3) # 0
    /\ GetPieceAtPosition(board, 3, 3).prev = <<1, 3>>
    /\ <<2, 3>> \notin Range(board.pieces[selectedPiece].avail)
    /\ board.pieces[selectedPiece].avail # << >>

\* the squares the rules of the pawn give the pawn id on the board b
PawnSquares(b, id) ==
    LET p == b.pieces[id]
        fwd == IF p.color = White THEN -1 ELSE 1
        start == IF p.color = White THEN 6 ELSE 1
        empty(sq) == At(b, sq[1], sq[2]) = 0
    IN  {sq \in Squares :
            \/ /\ sq = <<p.pos[1] + fwd, p.pos[2]>>
               /\ empty(sq)
            \/ /\ sq = <<p.pos[1] + 2 * fwd, p.pos[2]>>
               /\ p.pos[1] = start
               /\ empty(<<p.pos[1] + fwd, p.pos[2]>>)
               /\ empty(sq)
            \/ /\ sq[1] = p.pos[1] + fwd
               /\ sq[2] \in {p.pos[2] - 1, p.pos[2] + 1}
               /\ ~empty(sq)
               /\ GetPieceAtPosition(b, sq[1], sq[2]).color = Other(p.color)}

\* the pawns standing on the grid
PawnsOnGrid(b) == {id \in PieceIds : OnGrid(b, id) /\ b.pieces[id].kind = Pawn}

\* C33: pawn move generation.  On every reachable board the pseudo-legal moves of
\* every pawn are exactly: the square one step forward if it is on the board and
\* empty; the square two steps forward if the pawn stands on its starting rank and
\* both squares are empty; each forward-diagonal square that is on the board and
\* holds an opposing piece; each once.
C33_PawnMoves ==
    \A id \in PawnsOnGrid(board) :
        /\ Range(PossibleMoves(board, id)) = PawnSquares(board, id)
        /\ Len(PossibleMoves(board, id)) = Cardinality(PawnSquares(board, id))

\* a pawn was selected whose list holds a capture, while another pawn stands
\* blocked and one stands on its starting rank with both squares ahead empty
C33_Witness ==
    /\ last.kind = "select"
    /\ state = MovingAPiece
    /\ board.pieces[selectedPiece].kind = Pawn
    /\ \E m \in Range(board.pieces[selectedPiece].avail) :
          /\ m[2] # board.pieces[selectedPiece].pos[2]
          /\ At(board, m[1], m[2]) # 0
          /\ m \in PawnSquares(board, selectedPiece)
    /\ \E id \in PawnsOnGrid(board) : PossibleMoves(board, id) = << >>
    /\ \E id \in PawnsOnGrid(board) : Len(PossibleMoves(board, id)) = 2


\* the steps of the rook's and of the bishop's rays
RookSteps == {<<-1, 0>>, <<1, 0>>, <<0, -1>>, <<0, 1>>}
BishopSteps == {<<-1, -1>>, <<-1, 1>>, <<1, -1>>, <<1, 1>>}

\* the squares a piece of the given colour standing on pos reaches along the
\* steps: every square before the first occupied one, and the first occupied one
\* when it holds a piece of the other colour
SlideSquares(b, color, pos, steps) ==
    {sq \in Squares :
        \E d \in steps : \E k \in 1 .. 7 :
            /\ sq = <<pos[1] + k * d[1], pos[2] + k * d[2]>>
            /\ \A j \in 1 .. k - 1 :
                  At(b, pos[1] + j * d[1], pos[2] + j * d[2]) = 0
            /\ \/ At(b, sq[1], sq[2]) = 0
               \/ GetPieceAtPosition(b, sq[1], sq[2]).color = Other(color)}

\* the steps of a sliding piece, by kind
StepsOf(kind) ==
    CASE kind = Rook -> RookSteps
      [] kind = Bishop -> BishopSteps
      [] kind = Queen -> RookSteps \cup BishopSteps

\* the rooks, bishops and queens standing on the grid
SlidersOnGrid(b) ==
    {id \in PieceIds : OnGrid(b, id) /\ b.pieces[id].kind \in {Rook, Bishop, Queen}}

\* C34: sliding pieces.  On every reachable board each ray of a rook, bishop or
\* queen holds every empty square up to the first occupied square, that square
\* only if an opposing piece stands on it, and nothing beyond it, each square
\* once; and for every square and colour the queen's moves are the union of the
\* rook's and the bishop's moves.
C34_SlidingPieces ==
    /\ \A id \in SlidersOnGrid(board) :
          LET p == board.pieces[id]
              squares == SlideSquares(board, p.color, p.pos, StepsOf(p.kind))
          IN  /\ Range(PossibleMoves(board, id)) = squares
              /\ Len(PossibleMoves(board, id)) = Cardinality(squares)
    /\ \A pos \in Squares : \A color \in {White, Black} :
          LET p == [color |-> color, pos |-> pos]
          IN  Range(QueenPossibleMoves(board, p))
                  = Range(RookPossibleMoves(board, p))
                        \cup Range(BishopPossibleMoves(board, p))

\* a queen was moved to a square from which it captures along one ray, is stopped
\* by a piece of its own colour on another and runs over empty squares on a diagonal
C34_Witness ==
    /\ last.kind = "move"
    /\ last.what = "listed"
    /\ selectedPiece # 0
    /\ board.pieces[selectedPiece].kind = Queen
    /\ OnGrid(board, selectedPiece)
    /\ LET p == board.pieces[selectedPiece]
           moves == Range(PossibleMoves(board, selectedPiece))
       IN  /\ \E m \in moves : At(board, m[1], m[2]) # 0
           /\ \E m \in moves : m[1] # p.pos[1] /\ m[2] # p.pos[2]
                                  /\ At(board, m[1], m[2]) = 0
           /\ \E m \in moves : m[1] = p.pos[1] \/ m[2] = p.pos[2]
           /\ \E d \in RookSteps \cup BishopSteps :
                 /\ OnBoard(p.pos[1] + d[1], p.pos[2] + d[2])
                 /\ At(board, p.pos[1] + d[1], p.pos[2] + d[2]) # 0
                 /\ GetPieceAtPosition(board, p.pos[1] + d[1], p.pos[2] + d[2]).color
                        = p.color


\* the distance between two rows or two columns
Apart(x, y) == IF x >= y THEN x - y ELSE y - x

\* a square that is empty or holds a piece of the other colour
Enterable(b, color, sq) ==
    \/ At(b, sq[1], sq[2]) = 0
    \/ GetPieceAtPosition(b, sq[1], sq[2]).color = Other(color)

\* the rook handle of the king's colour on the given side
RookHandle(b, color, side) ==
    IF side = "queenside"
    THEN (IF color = White THEN b.wRookLeft ELSE b.bRookLeft)
    ELSE (IF color = White THEN b.wRookRight ELSE b.bRookRight)

\* the columns strictly between the king and the corner of the given side
ColumnsBetween(col, side) ==
    IF side = "queenside" THEN 1 .. col - 1 ELSE col + 1 .. 6

\* castling to the side is offered: neither the king nor the rook handle has
\* moved and the squares between them, three or two by the side, are empty
CastlingOffered(b, id, side) ==
    LET p == b.pieces[id]
        between == ColumnsBetween(p.pos[2], side)
    IN  /\ ~HasMoved(b, id)
        /\ ~HasMoved(b, RookHandle(b, p.color, side))
        /\ Cardinality(between) = (IF side = "queenside" THEN 3 ELSE 2)
        /\ \A c \in between : At(b, p.pos[1], c) = 0

\* the squares the rules of the king give the king id on the board b
KingTargets(b, id) ==
    LET p == b.pieces[id]
    IN  {sq \in Squares :
            \/ /\ sq # p.pos
               /\ Apart(sq[1], p.pos[1]) <= 1
               /\ Apart(sq[2], p.pos[2]) <= 1
               /\ Enterable(b, p.color, sq)
            \/ /\ sq = <<p.pos[1], p.pos[2] - 2>>
               /\ CastlingOffered(b, id, "queenside")
            \/ /\ sq = <<p.pos[1], p.pos[2] + 2>>
               /\ CastlingOffered(b, id, "kingside")}

\* the squares the rules of the knight give the knight id on the board b
KnightTargets(b, id) ==
    LET p == b.pieces[id]
    IN  {sq \in Squares :
            /\ {Apart(sq[1], p.pos[1]), Apart(sq[2], p.pos[2])} = {1, 2}
            /\ Enterable(b, p.color, sq)}

CastlingCounted(to, corner) ==
    (/\ KingSelectedAtHome
     /\ UnmovedKingAndRook(board, turn, corner)
     /\ last'.kind = "move"
     /\ last'.what = "listed"
     /\ board'.pieces[selectedPiece].pos = <<HomeRow(turn), to>>) =>
        /\ HasMoved(board', selectedPiece)
        /\ HasMoved(board', At(board, HomeRow(turn), corner))

\* the step C36_CastlingCounts constrains
C36_Counted_Step ==
    /\ CastlingCounted(6, 7)
    /\ CastlingCounted(2, 0)

\* C36: move counters on castling.  After an accepted castling move both the king
\* and the rook that was relocated with it report hasMoved() = true.
C36_CastlingCounts == [][C36_Counted_Step]_vars

=============================================================================
